---- MODULE Spec2Model ----
(***************************************************************************)
(* The real-time audio analysis and adaptive-quality core of the player:   *)
(* the audio provider (playback flag, analyser, sample buffers), the       *)
(* render loop of the music player (updateVisuals and the effects that     *)
(* start and stop it), the performance monitor, the meter ballistics and   *)
(* the oscilloscope controls.                                              *)
(*                                                                         *)
(* A React state change re-renders the component and runs the effects      *)
(* whose dependencies changed; one action of this module is one handler    *)
(* together with the effects its state changes trigger.                    *)
(*                                                                         *)
(* Numbers the code keeps as floats are kept exactly, as integers in a     *)
(* fixed unit named with each of them (BarScale, PanScale, OscScale), or   *)
(* as fractions [num, den]; the meter values are fixed-point in units of   *)
(* 1/MeterScale, rounded down.                                             *)
(***************************************************************************)
EXTENDS Integers, Sequences, FiniteSets, TLC

(***************************************************************************)
(* Bounds of the model and parameters of the environment.                  *)
(***************************************************************************)
\* horizon of the specifications Spec and ScopeSpec, in ms
MaxTime == 2600
\* horizon of the specifications PerfSpec and NominalSpec, in ms
PerfMaxTime == 13000
\* user events one behaviour of Spec may hold
MaxOps == 3
\* user events one behaviour of PerfSpec may hold
PerfMaxOps == 3
\* user events one behaviour of ScopeSpec may hold
ScopeMaxOps == 4
\* decay timers that may be live at once
MaxDecayTimers == 4
\* horizon of the specification SpectrumSpec, in ms
SpectrumMaxTime == 300
\* user events one behaviour of SpectrumSpec may hold
SpectrumMaxOps == 3
\* the longest sample buffer MeterSpec hands to the signal processors
MaxSamples == 9
\* meter updates one behaviour of MeterSpec may hold
MeterMaxOps == 3
\* in SettleSpec the signal falls silent within this time, in ms
SilenceBy == 4000
\* horizon of the player's page in SettleSpec, in ms: SilenceBy and the time
\* the levels need to settle
SettleMaxTime == 23000
\* horizon of the specification DecaySpec, in ms
DecayMaxTime == 50000
\* meter updates before the pause of DecaySpec
MaxUpdates == 4
\* horizon of the specification AdjustSpec, in ms
AdjustMaxTime == 8000
\* user events one behaviour of AdjustSpec may hold
AdjustMaxOps == 3
\* horizon of the specification FadeSpec, in ms
FadeMaxTime == 3850
\* the time by which the analyzer of FadeSpec is stopped for the last time, in ms
FadeBy == 200
\* user events one behaviour of FadeSpec may hold
FadeMaxOps == 3
\* horizon of the specification RateSpec, in ms
RateMaxTime == 6000
\* user events one behaviour of RateSpec may hold
RateMaxOps == 2
\* Date.now() - performance.now(): the epoch clock is far ahead of the page clock
EpochOffset == 100000

\* frame periods of the display in ms: 17 (about 60 fps), 51 (20 measured
\* fps) and 250 (a stalled page)
NominalPeriods == {17}
FramePeriods == {17, 51}
StallPeriods == {250}

Min(a, b) == IF a < b THEN a ELSE b
Max(a, b) == IF a > b THEN a ELSE b

(***************************************************************************)
(* Quality-profile registry.                                               *)
(***************************************************************************)
Tiers == {"ultra", "high", "medium", "low"}

\* rank of a tier: ultra > high > medium > low
TierRank(q) ==
  CASE q = "ultra" -> 3 [] q = "high" -> 2 [] q = "medium" -> 1 [] OTHER -> 0

getUpdateIntervals(quality) ==
  CASE quality = "ultra" -> [meter |-> 50, waveform |-> 33, performance |-> 500]
    [] quality = "high" -> [meter |-> 100, waveform |-> 66, performance |-> 1000]
    [] quality = "medium" -> [meter |-> 200, waveform |-> 100, performance |-> 1000]
    [] quality = "low" -> [meter |-> 500, waveform |-> 250, performance |-> 2000]
    [] OTHER -> [meter |-> 200, waveform |-> 100, performance |-> 1000]

getWaveformBars(quality) ==
  CASE quality = "ultra" -> 48
    [] quality = "high" -> 32
    [] quality = "medium" -> 24
    [] quality = "low" -> 12
    [] OTHER -> 24

\* a getSegmentCount whose switch lacks the case 'ultra'
getSegmentCountWithoutUltra(quality) ==
  CASE quality = "high" -> 15
    [] quality = "medium" -> 10
    [] quality = "low" -> 5
    [] OTHER -> 10

\* getSegmentCount of renderSimpleMeter
getSegmentCount(quality) ==
  CASE quality = "ultra" -> 20
    [] quality = "high" -> 15
    [] quality = "medium" -> 10
    [] quality = "low" -> 5
    [] OTHER -> 10

fftSizes(quality) ==
  CASE quality = "ultra" -> 512
    [] quality = "high" -> 256
    [] quality = "medium" -> 128
    [] OTHER -> 64

bufferSizes(quality) ==
  CASE quality = "ultra" -> 256
    [] quality = "high" -> 128
    [] quality = "medium" -> 64
    [] OTHER -> 32

\* fftSize of an analyser created by initializeAudioContext()
DefaultFftSize == 128

(***************************************************************************)
(* Sample buffers.  A buffer is [len, pat]: its length and the pattern of  *)
(* its bytes.  "zero" is a fresh Uint8Array; the analyser fills a buffer   *)
(* with the rest value 128 ("mid"), with 255 ("full") or with a rising     *)
(* ramp.                                                                   *)
(***************************************************************************)
Patterns == {"zero", "mid", "full", "ramp"}

NewUint8Array(n) == [len |-> n, pat |-> "zero"]

\* what a read outside an array gives (undefined), as a value no byte has
Undefined == 0 - 1

\* samples[i], 0-based
At(samples, i) ==
  IF i < 0 \/ i >= samples.len THEN Undefined
  ELSE CASE samples.pat = "zero" -> 0
         [] samples.pat = "mid" -> 128
         [] samples.pat = "full" -> 255
         [] OTHER -> IF samples.len = 1 THEN 0 ELSE (i * 255) \div (samples.len - 1)

\* samples.subarray(from, to)
Subarray(samples, from, to) ==
  [len |-> Max(0, Min(to, samples.len) - Min(from, samples.len)),
   pat |-> samples.pat, off |-> from, of |-> samples.len]

\* element i of a subarray of a buffer
SubAt(sub, i) ==
  IF i < 0 \/ i >= sub.len THEN Undefined
  ELSE At([len |-> sub.of, pat |-> sub.pat], sub.off + i)

\* the signals the audio backend delivers: what a read of the analyser
\* puts into the time-domain and the frequency-domain buffer
Signals == {"silence", "full", "ramp"}
TimePattern(sig) ==
  CASE sig = "silence" -> "mid" [] sig = "full" -> "full" [] OTHER -> "ramp"
FreqPattern(sig) ==
  CASE sig = "silence" -> "zero" [] sig = "full" -> "full" [] OTHER -> "ramp"

VARIABLES
  \* audio provider
  isPlaying, analyserFft, audioData, frequencyData, audioTimer,
  \* music player: quality and performance monitor
  qualityLevel, perf, performanceWarnings, autoQualityEnabled, autoTimeouts,
  sweepTimer,
  \* music player: render loop
  animationFrameRef, rafPending, lastMeterUpdate, lastWaveformUpdate,
  decayTimers,
  \* music player: display state
  waveformBars, oscilloscopeData, meterData,
  \* music player: oscilloscope controls
  oscilloscopeMode, timeScale, zoomLevel, panOffset, amplitudeZoom,
  isDragging, lastMouseX,
  \* spectrum analyzer
  frequencies, isActive, intensity, logIndexMap, spectrumTimer,
  \* environment: page clock, frame period, last frame, signal, operations used
  now, framePeriod, lastFrameTime, signal, opsLeft

providerVars == <<isPlaying, analyserFft, audioData, frequencyData, audioTimer>>
monitorVars == <<qualityLevel, perf, performanceWarnings, autoQualityEnabled,
                 autoTimeouts, sweepTimer>>
loopVars == <<animationFrameRef, rafPending, lastMeterUpdate,
              lastWaveformUpdate, decayTimers>>
displayVars == <<waveformBars, oscilloscopeData, meterData>>
scopeVars == <<oscilloscopeMode, timeScale, zoomLevel, panOffset,
               amplitudeZoom, isDragging, lastMouseX>>
spectrumVars == <<frequencies, isActive, intensity, logIndexMap, spectrumTimer>>
envVars == <<now, framePeriod, lastFrameTime, signal, opsLeft>>
vars == <<providerVars, monitorVars, loopVars, displayVars, scopeVars,
          spectrumVars, envVars>>

(***************************************************************************)
(* Performance monitor.                                                    *)
(* perf.avgFps and perf.cpuUsage are fractions [num, den];                 *)
(* perf.memoryUsage is in units of 1/MemScale MB.                          *)
(***************************************************************************)
MemScale == 4

PERFORMANCE_THRESHOLDS ==
  [fps |-> [warning |-> 45, critical |-> 25, auto_downgrade |-> 30],
   memory |-> [warning |-> 80, critical |-> 120],
   cpu |-> [warning |-> 70, critical |-> 85]]

\* Math.round(a / b) for a >= 0 and b > 0
Round(a, b) == (2 * a + b) \div (2 * b)

RECURSIVE SumSeq(_)
SumSeq(s) == IF s = <<>> THEN 0 ELSE Head(s) + SumSeq(Tail(s))

\* a memory estimate whose multiplier at tier 'ultra' is 5 in place of 4
qualityMultiplier2Heavy(q) ==
  CASE q = "ultra" -> 10 [] q = "high" -> 5 [] q = "medium" -> 3 [] OTHER -> 2

\* twice the quality multiplier of the memory estimate
qualityMultiplier2(q) ==
  CASE q = "ultra" -> 8 [] q = "high" -> 5 [] q = "medium" -> 3 [] OTHER -> 2

targetFps(q) ==
  CASE q = "ultra" -> 60 [] q = "high" -> 45 [] q = "medium" -> 30 [] OTHER -> 15

\* a history that is never shifted
PushHistoryUnbounded(hist, fps) == Append(hist, fps)

\* perf.fpsHistory after the push (and the shift past 10 readings)
PushHistory(hist, fps) ==
  LET h == Append(hist, fps)
  IN IF Len(h) > 10 THEN Tail(h) ELSE h

\* one hysteretic counter: up by one under the threshold, else down to 0
CountBelow(count, fps, threshold) ==
  IF fps < threshold THEN count + 1 ELSE Max(0, count - 1)

\* perf.cpuUsage as a fraction: max(10, min(95, (1 - fpsRatio) * 100 + base))
CpuEstimate(avg, q, playing) ==
  LET den == avg.den * targetFps(q)
      ratioNum == Min(den, avg.num)
      base == IF playing THEN 20 ELSE 5
      raw == 100 * (den - ratioNum) + base * den
  IN [num |-> Max(10 * den, Min(95 * den, raw)), den |-> den]

updatePerformanceMetrics(p, q, playing) ==
  LET hist == PushHistory(p.fpsHistory, p.fps)
      avg == [num |-> SumSeq(hist), den |-> Len(hist)]
      baseMemory == 20
      activityMultiplier2 == IF playing THEN 3 ELSE 2
  IN [p EXCEPT !.fpsHistory = hist,
               !.avgFps = avg,
               !.memoryUsage = baseMemory * qualityMultiplier2(q)
                                 * activityMultiplier2,
               !.cpuUsage = CpuEstimate(avg, q, playing),
               !.lowFpsCount =
                  CountBelow(p.lowFpsCount, p.fps,
                             PERFORMANCE_THRESHOLDS.fps.warning),
               !.criticalFpsCount =
                  CountBelow(p.criticalFpsCount, p.fps,
                             PERFORMANCE_THRESHOLDS.fps.critical)]

\* the tier a critical fps warning suggests
CriticalSuggestion(q) ==
  IF q = "ultra" THEN "high"
  ELSE IF q = "high" THEN "medium"
  ELSE IF q = "medium" THEN "low" ELSE "low"

\* the tier a low fps warning suggests
LowSuggestion(q) ==
  IF q = "ultra" THEN "high" ELSE IF q = "high" THEN "medium" ELSE "low"

\* the tier a memory or cpu warning of severity 'warning' suggests
MildSuggestion(q) == IF q = "ultra" THEN "high" ELSE "medium"

Warning(type, severity, suggested, timestamp) ==
  [type |-> type, severity |-> severity, suggestedQuality |-> suggested,
   timestamp |-> timestamp]

\* a monitor without the cooldown, which C1 must reject
NoCooldown(p, dateNow) == FALSE

\* the 5 second cooldown since the last warning
CooldownActive(p, dateNow) == dateNow - p.lastWarningTime < 5000

FpsWarnings(p, q, dateNow) ==
  IF p.criticalFpsCount >= 3
    THEN <<Warning("fps_critical", "critical", CriticalSuggestion(q), dateNow)>>
  ELSE IF p.lowFpsCount >= 5
          /\ p.avgFps.num < PERFORMANCE_THRESHOLDS.fps.warning * p.avgFps.den
    THEN <<Warning("fps_low", "warning", LowSuggestion(q), dateNow)>>
  ELSE <<>>

MemoryWarnings(p, q, dateNow) ==
  IF p.memoryUsage > PERFORMANCE_THRESHOLDS.memory.critical * MemScale
    THEN <<Warning("memory_high", "critical", "low", dateNow)>>
  ELSE IF p.memoryUsage > PERFORMANCE_THRESHOLDS.memory.warning * MemScale
    THEN <<Warning("memory_high", "warning", MildSuggestion(q), dateNow)>>
  ELSE <<>>

CpuWarnings(p, q, dateNow) ==
  IF p.cpuUsage.num > PERFORMANCE_THRESHOLDS.cpu.critical * p.cpuUsage.den
    THEN <<Warning("cpu_high", "critical", "low", dateNow)>>
  ELSE IF p.cpuUsage.num > PERFORMANCE_THRESHOLDS.cpu.warning * p.cpuUsage.den
    THEN <<Warning("cpu_high", "warning", MildSuggestion(q), dateNow)>>
  ELSE <<>>

\* the critical warnings of a batch, in order
Criticals(ws) == SelectSeq(ws, LAMBDA w : w.severity = "critical")

\* an auto-adjustment that also schedules the tier already active
AutoAdjustAnyTier(ws, q, auto, pageNow) ==
  LET cs == Criticals(ws)
  IN IF auto /\ cs # <<>> /\ cs[1].suggestedQuality # "none"
       THEN {[due |-> pageNow + 1000, quality |-> cs[1].suggestedQuality]}
       ELSE {}

\* the timeouts the auto-adjustment schedules, {[due, quality]}: one for the
\* first critical warning of the batch, when it suggests another tier
AutoAdjust(ws, q, auto, pageNow) ==
  LET cs == Criticals(ws)
  IN IF auto /\ cs # <<>> /\ cs[1].suggestedQuality # "none"
        /\ cs[1].suggestedQuality # q
       THEN {[due |-> pageNow + 1000, quality |-> cs[1].suggestedQuality]}
       ELSE {}

\* checkPerformanceWarnings: the monitor's record, the warnings added to the
\* list and the timeouts scheduled
checkPerformanceWarnings(p, q, auto, pageNow) ==
  LET dateNow == pageNow + EpochOffset
      ws == FpsWarnings(p, q, dateNow) \o MemoryWarnings(p, q, dateNow)
              \o CpuWarnings(p, q, dateNow)
  IN IF CooldownActive(p, dateNow) \/ ws = <<>>
       THEN [perf |-> p, added |-> <<>>, timeouts |-> {}]
       ELSE [perf |-> [p EXCEPT !.lastWarningTime = dateNow],
             added |-> ws,
             timeouts |-> AutoAdjust(ws, q, auto, pageNow)]

\* performanceRef.current.skipFrames after a check
SkipFrames(fps) == IF fps < 30 THEN Max(1, 60 \div fps) ELSE 0

\* the performance block of updateVisuals: frame counting and, past the
\* check interval, the check
PerformanceBlock(p, q, playing, auto, pageNow) ==
  LET counted == [p EXCEPT !.frameCount = p.frameCount + 1]
      interval == getUpdateIntervals(q).performance
  IN IF pageNow - counted.lastUpdate > interval
       THEN LET measured ==
                  [counted EXCEPT
                     !.fps = Round(counted.frameCount * 1000, interval),
                     !.frameCount = 0,
                     !.lastUpdate = pageNow]
                updated == updatePerformanceMetrics(measured, q, playing)
                checked == IF playing
                             THEN checkPerformanceWarnings(updated, q, auto,
                                                           pageNow)
                             ELSE [perf |-> updated, added |-> <<>>,
                                   timeouts |-> {}]
            IN [perf |-> [checked.perf EXCEPT
                            !.skipFrames = SkipFrames(checked.perf.fps)],
                added |-> checked.added,
                timeouts |-> checked.timeouts,
                checkedNow |-> TRUE]
       ELSE [perf |-> counted, added |-> <<>>, timeouts |-> {},
             checkedNow |-> FALSE]

(***************************************************************************)
(* Display computations.                                                   *)
(***************************************************************************)
\* what JavaScript's NaN is kept as: a value above every scaled number
NaN == 999999
IsNaN(x) == x = NaN

\* a waveform bar's height is kept in units of 1/BarScale:
\* (frequency / 255) * 80 = frequency * 16 / 51
BarScale == 51

\* new Array(n).fill(v)
Filled(n, v) == [i \in 1..n |-> v]

\* bars computed with the bar count of 'medium' whatever the tier, which C7
\* must reject
ComputeBarsOfMedium(freq, q) ==
  LET barCount == getWaveformBars("medium")
      step == freq.len \div barCount
  IN [i \in 1..barCount |->
        LET raw == At(freq, (i - 1) * step)
            frequency == IF raw = Undefined THEN 0 ELSE raw
        IN Min(100 * BarScale, Max(5 * BarScale, frequency * 16))]

\* the bars updateVisuals computes from the frequency buffer
ComputeBars(freq, q) ==
  LET barCount == getWaveformBars(q)
      step == freq.len \div barCount
  IN [i \in 1..barCount |->
        LET raw == At(freq, (i - 1) * step)
            frequency == IF raw = Undefined THEN 0 ELSE raw
        IN Min(100 * BarScale, Max(5 * BarScale, frequency * 16))]

\* the bars the quality effect resets to
ResetBars(q) == Filled(getWaveformBars(q), 15 * BarScale)

\* zoomLevel is kept in units of 1/ZoomUnit
ZoomUnit == 2000
levels == <<1, 2, 20, 200, 500, 1000, 1500, 2000, 4000, 8000, 16000, 32000>>
amplitudeLevels == <<1, 2, 4, 8>>

\* levels.indexOf(v)
IndexOf(ls, v) == CHOOSE i \in 1..Len(ls) : ls[i] = v

\* Math.floor(x / effectiveZoom), effectiveZoom = zoom >= 1 ? zoom : 1 / zoom
DivEffectiveZoom(x, zoom) ==
  IF zoom >= ZoomUnit THEN (x * ZoomUnit) \div zoom
  ELSE (x * zoom) \div ZoomUnit

\* panOffset is kept in units of 1/PanScale percent
PanScale == 8000
\* Math.floor((panOffset / 100) * maxPanOffset)
PanIndex(pan, maxPanOffset) == (pan * maxPanOffset) \div (100 * PanScale)

\* a display sample is kept in units of 1/OscScale
OscScale == 326400
Clamp1(v) == Max(0 - OscScale, Min(OscScale, v))
DisplaySamples == 128

\* the window of the time-domain view
TimeWindow(len, scale, zoom, pan) ==
  LET baseWindowSize == (len * scale) \div 10
      zoomedWindowSize == DivEffectiveZoom(baseWindowSize, zoom)
      maxPanOffset == len - zoomedWindowSize
      startIndex == Max(0, Min(maxPanOffset, PanIndex(pan, maxPanOffset)))
      endIndex == Min(len, startIndex + zoomedWindowSize)
  IN [startIndex |-> startIndex, endIndex |-> endIndex,
      actualWindowSize |-> endIndex - startIndex]

\* the index display sample i (0-based) of the time-domain view reads
TimeSampleIndex(w, i) ==
  Min(w.endIndex - 1,
      w.startIndex + ((i * (w.actualWindowSize - 1)) \div (DisplaySamples - 1)))

\* normalized * 0.8 * amplitudeZoom, clamped to [-1, 1]
TimeValue(raw, amp) ==
  IF raw = Undefined THEN NaN ELSE Clamp1((raw - 128) * 8 * amp * 255)

TimeTrace(data, scale, zoom, pan, amp) ==
  LET w == TimeWindow(data.len, scale, zoom, pan)
  IN [i \in 1..DisplaySamples |->
        TimeValue(At(data, TimeSampleIndex(w, i - 1)), amp)]

\* the window of the frequency-domain view
FreqWindow(totalFreqBins, zoom, pan) ==
  LET zoomedBins == DivEffectiveZoom(totalFreqBins, zoom)
      maxPanOffset == totalFreqBins - zoomedBins
      startBin == Max(0, Min(maxPanOffset, PanIndex(pan, maxPanOffset)))
      endBin == Min(totalFreqBins, startBin + zoomedBins)
  IN [startBin |-> startBin, endBin |-> endBin,
      step |-> Max(1, (endBin - startBin) \div DisplaySamples)]

\* (rawValue / 255 - 0.5) * 2 * 0.6 * amplitudeZoom, clamped to [-1, 1]
FreqValue(raw, amp) == Clamp1((2 * raw - 255) * 6 * amp * 128)

FreqTrace(freq, zoom, pan, amp) ==
  LET w == FreqWindow(freq.len, zoom, pan)
  IN [i \in 1..DisplaySamples |->
        LET freqIndex == w.startBin + (i - 1) * w.step
        IN IF freqIndex < w.endBin /\ freqIndex < freq.len
             THEN FreqValue(At(freq, freqIndex), amp)
             ELSE 0]

\* updateOscilloscopeData: the display buffer it leaves
updateOscilloscopeData(old, playing, mode, data, freq, scale, zoom, pan, amp) ==
  IF ~playing THEN Filled(DisplaySamples, 0)
  ELSE IF mode = "time"
    THEN IF data.len > 0 THEN TimeTrace(data, scale, zoom, pan, amp) ELSE old
    ELSE IF freq.len > 0 THEN FreqTrace(freq, zoom, pan, amp) ELSE old

(***************************************************************************)
(* Signal processors and meter ballistics.  Levels, holds and loudness are *)
(* in units of 1/MeterScale, the correlation in units of 1/CorrScale, a    *)
(* phase-scope coordinate in units of 1/128.                               *)
(***************************************************************************)
MeterScale == 1000
CorrScale == 16384

RECURSIVE SqrtBetween(_, _, _)
\* the largest r in lo..hi with r * r <= n
SqrtBetween(n, lo, hi) ==
  IF lo >= hi THEN lo
  ELSE LET mid == (lo + hi + 1) \div 2
       IN IF mid * mid <= n THEN SqrtBetween(n, mid, hi)
          ELSE SqrtBetween(n, lo, mid - 1)
ISqrt(n) == SqrtBetween(n, 0, 46340)

SquareDev(raw) == (raw - 128) * (raw - 128)
AbsDev(raw) == IF raw >= 128 THEN raw - 128 ELSE 128 - raw

RECURSIVE SumSquares(_, _, _)
\* the loop of calculateRMS from index i on: the sum of the squared deviations
SumSquares(sub, i, sampleRate) ==
  IF i >= sub.len THEN 0
  ELSE SquareDev(SubAt(sub, i)) + SumSquares(sub, i + sampleRate, sampleRate)

RECURSIVE MaxDev(_, _, _, _)
\* the loop of calculatePeak from index i on, peak being the largest so far
MaxDev(sub, i, sampleRate, peak) ==
  IF i >= sub.len THEN peak
  ELSE LET d == AbsDev(SubAt(sub, i))
       IN MaxDev(sub, i + sampleRate, sampleRate, IF d > peak THEN d ELSE peak)

\* calculateRMS without its clamp to [0, 100]
calculateRMSUnclamped(sub) ==
  IF sub.len = 0 THEN NaN
  ELSE LET sum == SumSquares(sub, 0, 4)
           root16 == ISqrt((4 * sum * 256) \div sub.len)
       IN (root16 * 150 * MeterScale) \div (16 * 128)

\* calculateRMS(samples), sampleRate = 4: NaN for an empty buffer (0 / 0)
calculateRMS(sub) ==
  IF sub.len = 0 THEN NaN
  ELSE LET sum == SumSquares(sub, 0, 4)
           \* 16 * sqrt(sum / (length / 4)), in sample units
           root16 == ISqrt((4 * sum * 256) \div sub.len)
       IN Min(100 * MeterScale,
              Max(0, (root16 * 150 * MeterScale) \div (16 * 128)))

\* calculatePeak(samples), sampleRate = 4
calculatePeak(sub) ==
  Min(100 * MeterScale, (MaxDev(sub, 0, 4, 0) * 100 * MeterScale) \div 128)

\* calculateLUFS(leftRMS, rightRMS)
calculateLUFS(leftRMS, rightRMS) ==
  IF IsNaN(leftRMS) \/ IsNaN(rightRMS) THEN NaN
  ELSE Max(0 - 60 * MeterScale,
           Min(0, (0 - 50 * MeterScale) + ((leftRMS + rightRMS) * 3) \div 20))

\* a VU level that holds its value when the input does not exceed it
VuLevelHeld(prev, rms) ==
  IF IsNaN(prev) THEN NaN
  ELSE IF ~IsNaN(rms) /\ rms > prev THEN (prev * 7 + rms * 3) \div 10
  ELSE prev

\* VU level: rising, prev * 0.7 + rms * 0.3; else prev * 0.9
VuLevel(prev, rms) ==
  IF IsNaN(prev) THEN NaN
  ELSE IF ~IsNaN(rms) /\ rms > prev THEN (prev * 7 + rms * 3) \div 10
  ELSE (prev * 9) \div 10

\* a PPM level that overshoots its input while rising
PpmLevelOvershoot(prev, peak) ==
  IF IsNaN(prev) THEN NaN
  ELSE IF ~IsNaN(peak) /\ peak > prev THEN (prev * 8 + peak * 4) \div 10
  ELSE (prev * 95) \div 100

\* PPM level: rising, prev * 0.8 + peak * 0.2; else prev * 0.95
PpmLevel(prev, peak) ==
  IF IsNaN(prev) THEN NaN
  ELSE IF ~IsNaN(peak) /\ peak > prev THEN (prev * 8 + peak * 2) \div 10
  ELSE (prev * 95) \div 100

\* a peak hold that only decays, which C11 must reject
PeakHoldDecayOnly(prev, value, factor) ==
  IF IsNaN(prev) \/ IsNaN(value) THEN NaN ELSE (prev * factor) \div 100

\* Math.max(value, prev * factor / 100)
PeakHold(prev, value, factor) ==
  IF IsNaN(prev) \/ IsNaN(value) THEN NaN
  ELSE Max(value, (prev * factor) \div 100)

\* prev.loudness * 0.95 + lufs * 0.05
Loudness(prev, lufs) ==
  IF IsNaN(prev) \/ IsNaN(lufs) THEN NaN ELSE (prev * 95 + lufs * 5) \div 100

\* the instantaneous correlation of the two halves: NaN for empty halves
Correlation(left, right, halfLength) ==
  LET corrSamples == Min(32, halfLength)
      idx(i) == (i * halfLength) \div corrSamples
      RECURSIVE Sum(_)
      Sum(i) == IF i >= corrSamples THEN 0
                ELSE (SubAt(left, idx(i)) - 128) * (SubAt(right, idx(i)) - 128)
                       + Sum(i + 1)
  IN IF corrSamples = 0 THEN NaN ELSE Sum(0) \div corrSamples

\* prev.correlation * 0.9 + correlation * 0.1
SmoothCorrelation(prev, c) ==
  IF IsNaN(prev) \/ IsNaN(c) THEN NaN ELSE (prev * 9 + c) \div 10

PhaseCoordinate(raw) == IF raw = Undefined THEN NaN ELSE raw - 128

PhasePoints(left, right, halfLength) ==
  [i \in 1..8 |->
     LET idx == ((i - 1) * halfLength) \div 8
     IN [x |-> PhaseCoordinate(SubAt(left, idx)),
         y |-> PhaseCoordinate(SubAt(right, idx))]]

\* the meter update of updateVisuals
UpdateMeters(prev, data) ==
  LET halfLength == data.len \div 2
      leftSamples == Subarray(data, 0, halfLength)
      rightSamples == Subarray(data, halfLength, data.len)
      leftRMS == calculateRMS(leftSamples)
      rightRMS == calculateRMS(rightSamples)
      leftPeak == calculatePeak(leftSamples)
      rightPeak == calculatePeak(rightSamples)
  IN [vuLeft |-> VuLevel(prev.vuLeft, leftRMS),
      vuRight |-> VuLevel(prev.vuRight, rightRMS),
      ppmLeft |-> PpmLevel(prev.ppmLeft, leftPeak),
      ppmRight |-> PpmLevel(prev.ppmRight, rightPeak),
      vuPeakLeft |-> PeakHold(prev.vuPeakLeft, leftRMS, 98),
      vuPeakRight |-> PeakHold(prev.vuPeakRight, rightRMS, 98),
      ppmPeakLeft |-> PeakHold(prev.ppmPeakLeft, leftPeak, 99),
      ppmPeakRight |-> PeakHold(prev.ppmPeakRight, rightPeak, 99),
      loudness |-> Loudness(prev.loudness, calculateLUFS(leftRMS, rightRMS)),
      correlation |->
        SmoothCorrelation(prev.correlation,
                          Correlation(leftSamples, rightSamples, halfLength)),
      phasePoints |-> PhasePoints(leftSamples, rightSamples, halfLength)]

\* prev * factor / 100 of the decay loop
Decayed(prev, factor) == IF IsNaN(prev) THEN NaN ELSE (prev * factor) \div 100

\* the decay loop's test: all four levels under 1
allLow(m) ==
  /\ ~IsNaN(m.vuLeft) /\ m.vuLeft < MeterScale
  /\ ~IsNaN(m.vuRight) /\ m.vuRight < MeterScale
  /\ ~IsNaN(m.ppmLeft) /\ m.ppmLeft < MeterScale
  /\ ~IsNaN(m.ppmRight) /\ m.ppmRight < MeterScale

\* one step of the decay loop on meters that are not all low
DecayMeters(prev) ==
  [prev EXCEPT !.vuLeft = Decayed(prev.vuLeft, 90),
               !.vuRight = Decayed(prev.vuRight, 90),
               !.ppmLeft = Decayed(prev.ppmLeft, 95),
               !.ppmRight = Decayed(prev.ppmRight, 95),
               !.vuPeakLeft = Decayed(prev.vuPeakLeft, 95),
               !.vuPeakRight = Decayed(prev.vuPeakRight, 95),
               !.ppmPeakLeft = Decayed(prev.ppmPeakLeft, 98),
               !.ppmPeakRight = Decayed(prev.ppmPeakRight, 98),
               !.correlation = Decayed(prev.correlation, 98)]

InitialMeterData ==
  [vuLeft |-> 0, vuRight |-> 0, ppmLeft |-> 0, ppmRight |-> 0,
   vuPeakLeft |-> 0, vuPeakRight |-> 0, ppmPeakLeft |-> 0, ppmPeakRight |-> 0,
   loudness |-> 0 - 23 * MeterScale, correlation |-> 0, phasePoints |-> <<>>]

(***************************************************************************)
(* The render loop's scheduling: the pending frame callbacks (by id), the  *)
(* id animationFrameRef holds (0: none), and the due times of the live     *)
(* decay timers, in ascending order.                                       *)
(***************************************************************************)
\* the id a new requestAnimationFrame returns: one no callback has
FreshId(l) ==
  CHOOSE i \in 1..(Cardinality(l.pending) + 2) :
    /\ i \notin l.pending \cup {l.ref}
    /\ \A j \in 1..(i - 1) : j \in l.pending \cup {l.ref}

\* animationFrameRef.current = requestAnimationFrame(updateVisuals)
requestAnimationFrame(l) ==
  LET id == FreshId(l)
  IN [l EXCEPT !.ref = id, !.pending = l.pending \cup {id}]

\* a cancelAnimationFrame that cancels nothing, which C5 must reject
KeepFrame(l) == l

\* if (animationFrameRef.current) cancelAnimationFrame(animationFrameRef.current)
cancelAnimationFrame(l) ==
  IF l.ref # 0 THEN [l EXCEPT !.pending = l.pending \ {l.ref}] ELSE l

RECURSIVE SortedInsert(_, _)
SortedInsert(dues, due) ==
  IF dues = <<>> THEN <<due>>
  ELSE IF due <= Head(dues) THEN <<due>> \o dues
  ELSE <<Head(dues)>> \o SortedInsert(Tail(dues), due)

\* setInterval(decay, 500)
StartDecayTimer(l, pageNow) ==
  [l EXCEPT !.timers = SortedInsert(l.timers, pageNow + 500)]

\* a start/stop effect without its cleanup, which C3 must reject
StartStopWithoutCleanup(playing, l, pageNow) ==
  IF playing THEN requestAnimationFrame(l)
  ELSE StartDecayTimer(cancelAnimationFrame(l), pageNow)

\* one run of the start/stop effect after a change of isPlaying or of
\* updateVisuals: the cleanup of the run before, then the body
StartStopEffect(playing, l, pageNow) ==
  LET cleaned == cancelAnimationFrame(l)
  IN IF playing THEN requestAnimationFrame(cleaned)
     ELSE StartDecayTimer(cancelAnimationFrame(cleaned), pageNow)

Loop == [ref |-> animationFrameRef, pending |-> rafPending,
         timers |-> decayTimers]

SetLoop(l) ==
  /\ animationFrameRef' = l.ref
  /\ rafPending' = l.pending
  /\ decayTimers' = l.timers
  /\ Len(l.timers) <= MaxDecayTimers

\* updateQualitySettings(quality): the analyser's fftSize after it
SetFftSize(fft, quality) == IF fft # 0 THEN fftSizes(quality) ELSE fft

InitialPerf ==
  [lastUpdate |-> 0, frameCount |-> 0, fps |-> 0, skipFrames |-> 0,
   avgFps |-> [num |-> 0, den |-> 1], fpsHistory |-> <<>>,
   lowFpsCount |-> 0, criticalFpsCount |-> 0, lastWarningTime |-> 0,
   memoryUsage |-> 0, cpuUsage |-> [num |-> 0, den |-> 1]]

\* The state once the player is mounted and its effects have run: the
\* start/stop effect (playback stopped), the quality effect for 'medium',
\* which replaces the sample buffers, and the start/stop effect again.
\* The page shows the player, so the spectrum analyzer is not mounted: it
\* has no column values, no index map and no timer.
Init(periods, signals, budget) ==
  /\ isPlaying = FALSE
  /\ analyserFft = 0
  /\ audioData = NewUint8Array(bufferSizes("medium"))
  /\ frequencyData = NewUint8Array(bufferSizes("medium"))
  /\ audioTimer = 0
  /\ qualityLevel = "medium"
  /\ perf = InitialPerf
  /\ performanceWarnings = <<>>
  /\ autoQualityEnabled = TRUE
  /\ autoTimeouts = {}
  /\ sweepTimer = 1000
  /\ LET mounted ==
           StartStopEffect(FALSE,
             StartStopEffect(FALSE,
               [ref |-> 0, pending |-> {}, timers |-> <<>>], 0), 0)
     IN /\ animationFrameRef = mounted.ref
        /\ rafPending = mounted.pending
        /\ decayTimers = mounted.timers
  /\ lastMeterUpdate = 0
  /\ lastWaveformUpdate = 0
  /\ waveformBars = ResetBars("medium")
  /\ oscilloscopeData = Filled(DisplaySamples, 0)
  /\ meterData = InitialMeterData
  /\ oscilloscopeMode = "time"
  /\ timeScale = 10
  /\ zoomLevel = ZoomUnit
  /\ panOffset = 0
  /\ amplitudeZoom = 8
  /\ isDragging = FALSE
  /\ lastMouseX = 0
  /\ frequencies = <<>>
  /\ isActive = FALSE
  /\ intensity = 70
  /\ logIndexMap = <<>>
  /\ spectrumTimer = 0
  /\ now = 0
  /\ framePeriod \in periods
  /\ lastFrameTime = 0 - 1
  /\ signal \in signals
  /\ opsLeft = budget

(***************************************************************************)
(* Timers.  The timers whose due time has come run in the order of         *)
(* their due times (at the same due time: the read interval, a decay       *)
(* timer, the expiry interval, the auto-adjust timeout); the handlers of   *)
(* user events and the frame callback run when no timer is due.            *)
(***************************************************************************)
TimerDues ==
  {sweepTimer} \cup {decayTimers[i] : i \in 1..Len(decayTimers)}
    \cup {t.due : t \in autoTimeouts}
    \cup (IF audioTimer # 0 THEN {audioTimer} ELSE {})

MinDue == CHOOSE d \in TimerDues : \A e \in TimerDues : d <= e

TimersQuiet == \A d \in TimerDues : d > now

\* a user event of the player's page is handled: one of the behaviour's
\* budget of them
UserEvent ==
  /\ opsLeft > 0
  /\ TimersQuiet
  /\ opsLeft' = opsLeft - 1
  /\ UNCHANGED spectrumVars

\* the timer that runs next, "none" when none is due
NextTimer ==
  IF TimersQuiet THEN "none"
  ELSE IF audioTimer # 0 /\ audioTimer = MinDue THEN "audio"
  ELSE IF decayTimers # <<>> /\ Head(decayTimers) = MinDue THEN "decay"
  ELSE IF sweepTimer = MinDue THEN "sweep"
  ELSE "auto"

(***************************************************************************)
(* Operations of the audio provider.                                       *)
(***************************************************************************)
AUDIO_UPDATE_INTERVAL == 100

\* the re-render after isPlaying changed: the player's start/stop effect and
\* the provider's effect that starts or clears the read interval
PlayingChanged(playing, fft) ==
  /\ SetLoop(StartStopEffect(playing, Loop, now))
  /\ audioTimer' = IF playing /\ fft # 0 THEN now + AUDIO_UPDATE_INTERVAL ELSE 0

\* play(): the analyser is created on the first call, unless creating the
\* audio context fails (contextOk = FALSE); then playback starts
Play(contextOk) ==
  /\ ~isPlaying
  /\ analyserFft' = IF analyserFft = 0 /\ contextOk THEN DefaultFftSize
                    ELSE analyserFft
  /\ isPlaying' = TRUE
  /\ PlayingChanged(TRUE, analyserFft')
  /\ UserEvent
  /\ UNCHANGED <<audioData, frequencyData, monitorVars, lastMeterUpdate,
                 lastWaveformUpdate, displayVars, scopeVars, now, framePeriod,
                 lastFrameTime, signal>>

\* setIsPlaying(false) and the re-render after it
StopPlaying ==
  /\ isPlaying
  /\ isPlaying' = FALSE
  /\ PlayingChanged(FALSE, analyserFft)
  /\ UserEvent
  /\ UNCHANGED <<analyserFft, audioData, frequencyData, monitorVars,
                 lastMeterUpdate, lastWaveformUpdate, displayVars, scopeVars,
                 now, framePeriod, lastFrameTime, signal>>

\* pause()
Pause == StopPlaying

\* stop()
Stop == StopPlaying

\* the audio element's 'ended' event
HandleEnded == StopPlaying

\* the audio element's 'error' event
HandleError == StopPlaying

\* updateAudioData, the provider's interval callback: both buffers are read
\* from the analyser, and the player re-renders with them
UpdateAudioData ==
  /\ NextTimer = "audio"
  /\ UNCHANGED spectrumVars
  /\ audioTimer' = audioTimer + AUDIO_UPDATE_INTERVAL
  /\ IF analyserFft # 0 /\ isPlaying
       THEN /\ audioData' = [len |-> analyserFft \div 2,
                             pat |-> TimePattern(signal)]
            /\ frequencyData' = [len |-> analyserFft \div 2,
                                 pat |-> FreqPattern(signal)]
            /\ SetLoop(StartStopEffect(isPlaying, Loop, now))
       ELSE UNCHANGED <<audioData, frequencyData, animationFrameRef,
                        rafPending, decayTimers>>
  /\ UNCHANGED <<isPlaying, analyserFft, monitorVars, lastMeterUpdate,
                 lastWaveformUpdate, displayVars, scopeVars, envVars>>

(***************************************************************************)
(* Tier changes.                                                           *)
(***************************************************************************)
\* setQualityLevel(quality) and the re-renders after it: the start/stop
\* effect (updateVisuals changed), the quality effect, which calls
\* updateQualitySettings and resets the bars, and the start/stop effect
\* again for the new sample buffers
ChangeQuality(quality) ==
  IF quality = qualityLevel
    THEN UNCHANGED <<qualityLevel, audioData, frequencyData, analyserFft,
                     waveformBars, animationFrameRef, rafPending, decayTimers>>
    ELSE /\ qualityLevel' = quality
         /\ audioData' = NewUint8Array(bufferSizes(quality))
         /\ frequencyData' = NewUint8Array(bufferSizes(quality))
         /\ analyserFft' = SetFftSize(analyserFft, quality)
         /\ waveformBars' = ResetBars(quality)
         /\ SetLoop(StartStopEffect(isPlaying,
                      StartStopEffect(isPlaying, Loop, now), now))

\* the quality select's onChange
SetQualityLevel(quality) ==
  /\ quality # qualityLevel
  /\ ChangeQuality(quality)
  /\ UserEvent
  /\ UNCHANGED <<isPlaying, audioTimer, perf, performanceWarnings,
                 autoQualityEnabled, autoTimeouts, sweepTimer, lastMeterUpdate,
                 lastWaveformUpdate, oscilloscopeData, meterData, scopeVars,
                 now, framePeriod, lastFrameTime, signal>>

\* applyQualitySuggestion(warning), for the i-th warning of the list
ApplyQualitySuggestion(i) ==
  /\ i \in 1..Len(performanceWarnings)
  /\ performanceWarnings[i].suggestedQuality # "none"
  /\ ChangeQuality(performanceWarnings[i].suggestedQuality)
  /\ performanceWarnings' =
       SelectSeq(performanceWarnings, LAMBDA w : w # performanceWarnings[i])
  /\ UserEvent
  /\ UNCHANGED <<isPlaying, audioTimer, perf, autoQualityEnabled,
                 autoTimeouts, sweepTimer, lastMeterUpdate, lastWaveformUpdate,
                 oscilloscopeData, meterData, scopeVars, now, framePeriod,
                 lastFrameTime, signal>>

\* the timeout the auto-adjustment scheduled: the tier is set and the
\* synthetic warning appended
AutoAdjustFire ==
  \E t \in autoTimeouts :
    /\ NextTimer = "auto"
    /\ UNCHANGED spectrumVars
    /\ t.due = MinDue
    /\ ChangeQuality(t.quality)
    /\ performanceWarnings' =
         Append(performanceWarnings,
                Warning("fps_low", "warning", "none", now + EpochOffset))
    /\ autoTimeouts' = autoTimeouts \ {t}
    /\ UNCHANGED <<isPlaying, audioTimer, perf, autoQualityEnabled, sweepTimer,
                   lastMeterUpdate, lastWaveformUpdate, oscilloscopeData,
                   meterData, scopeVars, envVars>>

\* the auto-adjust checkbox's onChange
ToggleAutoQuality ==
  /\ autoQualityEnabled' = ~autoQualityEnabled
  /\ SetLoop(StartStopEffect(isPlaying, Loop, now))
  /\ UserEvent
  /\ UNCHANGED <<providerVars, qualityLevel, perf, performanceWarnings,
                 autoTimeouts, sweepTimer, lastMeterUpdate, lastWaveformUpdate,
                 displayVars, scopeVars, now, framePeriod, lastFrameTime,
                 signal>>

\* a filter that keeps every warning, which C13 must reject
KeepAll(ws, dateNow) == ws

\* prev.filter(warning => now - warning.timestamp < 10000)
Unexpired(ws, dateNow) ==
  SelectSeq(ws, LAMBDA w : dateNow - w.timestamp < 10000)

\* the interval that dismisses warnings 10 seconds old
ExpirySweep ==
  /\ NextTimer = "sweep"
  /\ UNCHANGED spectrumVars
  /\ sweepTimer' = sweepTimer + 1000
  /\ performanceWarnings' = Unexpired(performanceWarnings, now + EpochOffset)
  /\ UNCHANGED <<providerVars, qualityLevel, perf, autoQualityEnabled,
                 autoTimeouts, loopVars, displayVars, scopeVars, envVars>>

(***************************************************************************)
(* The render loop.                                                        *)
(***************************************************************************)
\* if (isPlaying) animationFrameRef.current = requestAnimationFrame(updateVisuals)
Reschedule(playing, l) == IF playing THEN requestAnimationFrame(l) ELSE l

\* a frame-skip test that lets every frame through
NoFrameSkipped(p) == FALSE

\* the frame-skip test of updateVisuals
FrameSkipped(p) == p.skipFrames > 0 /\ p.frameCount % p.skipFrames # 0

\* a throttle that lets every frame through
Unthrottled(pageNow, last, interval) == pageNow > last

\* one throttle: has more than the interval passed since the last fire
Throttle(pageNow, last, interval) == pageNow - last > interval

\* updateVisuals, run as the frame callback id
updateVisuals(id) ==
  LET pb == PerformanceBlock(perf, qualityLevel, isPlaying,
                             autoQualityEnabled, now)
      intervals == getUpdateIntervals(qualityLevel)
      skipped == FrameSkipped(pb.perf)
      shouldUpdateMeters ==
        ~skipped /\ Throttle(now, lastMeterUpdate, intervals.meter)
      shouldUpdateWaveform ==
        ~skipped /\ Throttle(now, lastWaveformUpdate, intervals.waveform)
  IN /\ perf' = pb.perf
     /\ performanceWarnings' = performanceWarnings \o pb.added
     /\ autoTimeouts' = autoTimeouts \cup pb.timeouts
     /\ lastMeterUpdate' = IF shouldUpdateMeters THEN now ELSE lastMeterUpdate
     /\ lastWaveformUpdate' =
          IF shouldUpdateWaveform THEN now ELSE lastWaveformUpdate
     /\ waveformBars' =
          IF shouldUpdateWaveform /\ frequencyData.len > 0
            THEN ComputeBars(frequencyData, qualityLevel)
            ELSE waveformBars
     /\ oscilloscopeData' =
          IF shouldUpdateWaveform
            THEN updateOscilloscopeData(oscilloscopeData, isPlaying,
                   oscilloscopeMode, audioData, frequencyData, timeScale,
                   zoomLevel, panOffset, amplitudeZoom)
            ELSE oscilloscopeData
     /\ meterData' =
          IF shouldUpdateMeters /\ audioData.len > 0
            THEN UpdateMeters(meterData, audioData)
            ELSE meterData
     /\ SetLoop(Reschedule(isPlaying,
                           [Loop EXCEPT !.pending = rafPending \ {id}]))

\* the browser runs a pending frame callback, once per frame
Tick ==
  /\ TimersQuiet
  /\ lastFrameTime < now
  /\ UNCHANGED spectrumVars
  /\ \E id \in rafPending : updateVisuals(id)
  /\ lastFrameTime' = now
  /\ UNCHANGED <<providerVars, qualityLevel, autoQualityEnabled, sweepTimer,
                 scopeVars, now, framePeriod, signal, opsLeft>>

\* the callback of the decay timer that is due first
DecayTick ==
  /\ NextTimer = "decay"
  /\ UNCHANGED spectrumVars
  /\ IF allLow(meterData)
       THEN /\ decayTimers' = Tail(decayTimers)
            /\ meterData' = meterData
       ELSE /\ decayTimers' =
                 SortedInsert(Tail(decayTimers), Head(decayTimers) + 500)
            /\ meterData' = DecayMeters(meterData)
  /\ UNCHANGED <<providerVars, monitorVars, animationFrameRef, rafPending,
                 lastMeterUpdate, lastWaveformUpdate, waveformBars,
                 oscilloscopeData, scopeVars, envVars>>

(***************************************************************************)
(* Time.  A timer whose due time has come runs before time passes on, and  *)
(* so does a pending frame callback; while frames are pending, time passes *)
(* one frame period at a step, else one idle step.                         *)
(***************************************************************************)
Advance(horizon, idleStep) ==
  /\ TimersQuiet
  /\ rafPending = {} \/ lastFrameTime >= now
  /\ now' = now + (IF rafPending # {} THEN framePeriod ELSE idleStep)
  /\ now' <= horizon
  /\ UNCHANGED <<providerVars, monitorVars, loopVars, displayVars, scopeVars,
                 spectrumVars, framePeriod, lastFrameTime, signal, opsLeft>>

\* the audio backend delivers another signal
ChangeSignal(sig) ==
  /\ sig # signal
  /\ signal' = sig
  /\ UserEvent
  /\ UNCHANGED <<providerVars, monitorVars, loopVars, displayVars, scopeVars,
                 now, framePeriod, lastFrameTime>>

\* the display's frame period changes, right after a performance check
ChangeRate(period) ==
  /\ period # framePeriod
  /\ perf.frameCount = 0
  /\ framePeriod' = period
  /\ UserEvent
  /\ UNCHANGED <<providerVars, monitorVars, loopVars, displayVars, scopeVars,
                 now, lastFrameTime, signal>>

(***************************************************************************)
(* Oscilloscope controls.  A change of zoom, pan, amplitude zoom, mode or  *)
(* time scale changes updateVisuals, so the start/stop effect runs again.  *)
(***************************************************************************)
ScopeChanged == SetLoop(StartStopEffect(isPlaying, Loop, now))

ScopeFrame ==
  UNCHANGED <<providerVars, monitorVars, lastMeterUpdate, lastWaveformUpdate,
              displayVars, now, framePeriod, lastFrameTime, signal>>

\* a zoomIn that moves two positions up
zoomInByTwo(prev) ==
  levels[Min(IndexOf(levels, prev) + 2, Len(levels))]

\* the updater of zoomIn
zoomIn(prev) ==
  LET currentIndex == IndexOf(levels, prev)
  IN IF currentIndex < Len(levels) THEN levels[currentIndex + 1] ELSE prev

\* the updater of zoomOut
zoomOut(prev) ==
  LET currentIndex == IndexOf(levels, prev)
  IN IF currentIndex > 1 THEN levels[currentIndex - 1] ELSE prev

\* the pan offset zoomOut leaves: reset when the next level is 1x or below
PanAfterZoomOut(prev, pan) ==
  IF zoomOut(prev) # prev /\ zoomOut(prev) <= ZoomUnit THEN 0 ELSE pan

ZoomIn ==
  /\ zoomIn(zoomLevel) # zoomLevel
  /\ zoomLevel' = zoomIn(zoomLevel)
  /\ ScopeChanged
  /\ UserEvent
  /\ ScopeFrame
  /\ UNCHANGED <<oscilloscopeMode, timeScale, panOffset, amplitudeZoom,
                 isDragging, lastMouseX>>

ZoomOut ==
  /\ zoomOut(zoomLevel) # zoomLevel
  /\ zoomLevel' = zoomOut(zoomLevel)
  /\ panOffset' = PanAfterZoomOut(zoomLevel, panOffset)
  /\ ScopeChanged
  /\ UserEvent
  /\ ScopeFrame
  /\ UNCHANGED <<oscilloscopeMode, timeScale, amplitudeZoom, isDragging,
                 lastMouseX>>

amplitudeZoomIn(prev) ==
  LET currentIndex == IndexOf(amplitudeLevels, prev)
  IN IF currentIndex < Len(amplitudeLevels)
       THEN amplitudeLevels[currentIndex + 1] ELSE prev

amplitudeZoomOut(prev) ==
  LET currentIndex == IndexOf(amplitudeLevels, prev)
  IN IF currentIndex > 1 THEN amplitudeLevels[currentIndex - 1] ELSE prev

AmplitudeZoomIn ==
  /\ amplitudeZoomIn(amplitudeZoom) # amplitudeZoom
  /\ amplitudeZoom' = amplitudeZoomIn(amplitudeZoom)
  /\ ScopeChanged
  /\ UserEvent
  /\ ScopeFrame
  /\ UNCHANGED <<oscilloscopeMode, timeScale, zoomLevel, panOffset,
                 isDragging, lastMouseX>>

AmplitudeZoomOut ==
  /\ amplitudeZoomOut(amplitudeZoom) # amplitudeZoom
  /\ amplitudeZoom' = amplitudeZoomOut(amplitudeZoom)
  /\ ScopeChanged
  /\ UserEvent
  /\ ScopeFrame
  /\ UNCHANGED <<oscilloscopeMode, timeScale, zoomLevel, panOffset,
                 isDragging, lastMouseX>>

ResetZoom ==
  /\ zoomLevel # ZoomUnit \/ amplitudeZoom # 1 \/ panOffset # 0
  /\ zoomLevel' = ZoomUnit
  /\ amplitudeZoom' = 1
  /\ panOffset' = 0
  /\ ScopeChanged
  /\ UserEvent
  /\ ScopeFrame
  /\ UNCHANGED <<oscilloscopeMode, timeScale, isDragging, lastMouseX>>

\* handleWheel: shift + wheel steps the amplitude zoom, the wheel alone the
\* zoom; up is deltaY < 0
HandleWheel(shiftKey, up) ==
  IF shiftKey THEN (IF up THEN AmplitudeZoomIn ELSE AmplitudeZoomOut)
  ELSE (IF up THEN ZoomIn ELSE ZoomOut)

SetOscilloscopeMode(mode) ==
  /\ mode # oscilloscopeMode
  /\ oscilloscopeMode' = mode
  /\ ScopeChanged
  /\ UserEvent
  /\ ScopeFrame
  /\ UNCHANGED <<timeScale, zoomLevel, panOffset, amplitudeZoom, isDragging,
                 lastMouseX>>

SetTimeScale(scale) ==
  /\ scale # timeScale
  /\ timeScale' = scale
  /\ ScopeChanged
  /\ UserEvent
  /\ ScopeFrame
  /\ UNCHANGED <<oscilloscopeMode, zoomLevel, panOffset, amplitudeZoom,
                 isDragging, lastMouseX>>

\* the x positions of the mouse events
MouseXs == {0, 20, 40}

\* the updater of setPanOffset in both move handlers:
\* panDelta = (deltaX * 0.5 * zoomLevel) / 2
PanAfterDrag(prev, clientX, last, zoom) ==
  Max(0, Min(100 * PanScale, prev - (clientX - last) * zoom))

\* handleMouseMove: the pan offset it leaves
handleMouseMove(prev, dragging, zoom, clientX, last) ==
  IF dragging /\ zoom > ZoomUnit THEN PanAfterDrag(prev, clientX, last, zoom)
  ELSE prev

\* handleGlobalMouseMove, the document's listener while dragging: the pan
\* offset it leaves
handleGlobalMouseMove(prev, zoom, clientX, last) ==
  PanAfterDrag(prev, clientX, last, zoom)

HandleMouseDown(clientX) ==
  /\ zoomLevel > ZoomUnit
  /\ isDragging' = TRUE
  /\ lastMouseX' = clientX
  /\ UserEvent
  /\ ScopeFrame
  /\ UNCHANGED <<loopVars, oscilloscopeMode, timeScale, zoomLevel, panOffset,
                 amplitudeZoom>>

PanMoved(pan) ==
  /\ panOffset' = pan
  /\ IF pan # panOffset THEN ScopeChanged
     ELSE UNCHANGED <<animationFrameRef, rafPending, decayTimers>>

\* a mouse move over the oscilloscope during a drag: handleMouseMove runs,
\* and as the event bubbles the document's listener runs after it
MouseMoveElement(clientX) ==
  /\ isDragging
  /\ PanMoved(handleGlobalMouseMove(
                handleMouseMove(panOffset, isDragging, zoomLevel, clientX,
                                lastMouseX),
                zoomLevel, clientX, lastMouseX))
  /\ lastMouseX' = clientX
  /\ UserEvent
  /\ ScopeFrame
  /\ UNCHANGED <<lastMeterUpdate, lastWaveformUpdate, oscilloscopeMode,
                 timeScale, zoomLevel, amplitudeZoom, isDragging>>

\* a mouse move elsewhere in the document during a drag
MouseMoveDocument(clientX) ==
  /\ isDragging
  /\ PanMoved(handleGlobalMouseMove(panOffset, zoomLevel, clientX, lastMouseX))
  /\ lastMouseX' = clientX
  /\ UserEvent
  /\ ScopeFrame
  /\ UNCHANGED <<lastMeterUpdate, lastWaveformUpdate, oscilloscopeMode,
                 timeScale, zoomLevel, amplitudeZoom, isDragging>>

\* handleMouseUp and the document's mouseup listener
HandleMouseUp ==
  /\ isDragging
  /\ isDragging' = FALSE
  /\ UserEvent
  /\ ScopeFrame
  /\ UNCHANGED <<loopVars, oscilloscopeMode, timeScale, zoomLevel, panOffset,
                 amplitudeZoom, lastMouseX>>

(***************************************************************************)
(* The spectrum analyzer's arithmetic.  Math.log10 and Math.pow are        *)
(* computed in binary fixed point with FracBits fractional bits, once      *)
(* rounding every step down and once rounding every step up, so that the   *)
(* two results enclose the real value; products and quotients keep a       *)
(* double-width intermediate.                                              *)
(***************************************************************************)
FracBits == 24
One == 2 ^ FracBits

\* the quotient and remainder of a * b by c, for 0 <= a, 0 <= b and
\* 0 < c <= 2 ^ 26, taking four bits of b at a time
RECURSIVE MulDivRem(_, _, _)
MulDivRem(a, b, c) ==
  IF b = 0 THEN [q |-> 0, r |-> 0]
  ELSE LET rest == MulDivRem(a, b \div 16, c)
           t == 16 * rest.r + (b % 16) * (a % c)
       IN [q |-> 16 * rest.q + (b % 16) * (a \div c) + t \div c, r |-> t % c]

\* a * b / c rounded down (up = FALSE) or up (up = TRUE)
MulDiv(a, b, c, up) ==
  IF a = 0 \/ b = 0 THEN 0
  ELSE LET d == MulDivRem(a, b, c)
       IN IF up /\ d.r # 0 THEN d.q + 1 ELSE d.q

\* the product of two fixed-point numbers
Mul(x, y, up) == MulDiv(x, y, One, up)

\* Newton's iteration for the integer square root of x * One, from a
\* start r that is not below it
RECURSIVE SqrtFrom(_, _)
SqrtFrom(x, r) ==
  LET next == (r + MulDiv(x, One, r, FALSE)) \div 2
  IN IF next >= r THEN r ELSE SqrtFrom(x, next)

\* the square root of a fixed-point number in [1, 16)
Sqrt(x, up) ==
  LET r == SqrtFrom(x, Min(x, 4 * One))
      square == MulDivRem(r, r, One)
  IN IF up /\ (square.q # x \/ square.r # 0) THEN r + 1 ELSE r

\* the bounds of 10 ^ (1/2), 10 ^ (1/4), ..., 10 ^ (1 / 2 ^ FracBits), from
\* bit on; root is the root of the bit before
RECURSIVE RootsFrom(_, _, _)
RootsFrom(root, bit, up) ==
  IF bit > FracBits THEN <<>>
  ELSE LET next == Sqrt(root, up)
       IN IF next <= One THEN <<One>> \o RootsFrom(One, bit + 1, up)
          ELSE <<next>> \o RootsFrom(next, bit + 1, up)
Roots == [lo |-> RootsFrom(10 * One, 1, FALSE), hi |-> RootsFrom(10 * One, 1, TRUE)]

\* 10 ^ y for a fixed-point y in [0, 1), from bit on: the product of the
\* roots that the bits of y select
RECURSIVE PowFraction(_, _, _, _)
PowFraction(y, bit, roots, up) ==
  IF bit > FracBits THEN One
  ELSE LET rest == PowFraction(y, bit + 1, roots, up)
       IN IF roots[bit] = One \/ (y \div 2 ^ (FracBits - bit)) % 2 = 0
            THEN rest
          ELSE IF rest = One THEN roots[bit]
          ELSE Mul(rest, roots[bit], up)

\* Math.pow(10, y) for a fixed-point y >= 0, as a mantissa in [1, 10] and a
\* decimal exponent
Pow10(y, roots, up) ==
  [mantissa |-> PowFraction(y % One, 1, roots, up), exponent |-> y \div One]

\* the fractional bits of log10 of a fixed-point x in [1, 10), from bit on:
\* squaring x doubles its logarithm
RECURSIVE LogFraction(_, _, _)
LogFraction(x, bit, up) ==
  IF bit > FracBits THEN IF up THEN 1 ELSE 0
  ELSE LET square == Mul(x, x, up)
       IN IF square >= 10 * One
            THEN 2 ^ (FracBits - bit)
                   + LogFraction(MulDiv(square, 1, 10, up), bit + 1, up)
            ELSE LogFraction(square, bit + 1, up)

\* the number of decimal digits of n >= 1, less one
RECURSIVE Magnitude(_)
Magnitude(n) == IF n < 10 THEN 0 ELSE 1 + Magnitude(n \div 10)

\* Math.log10(n) for an integer n >= 1, in fixed point
Log10(n, up) ==
  LET e == Magnitude(n)
  IN e * One + LogFraction(MulDiv(n, One, 10 ^ e, up), 1, up)

VIZ_COLS == 140
MIN_FREQ == 20
MAX_FREQ == 22000
SAMPLE_RATE == 44100

\* freq of logIndexMap for every column, as the pair of its bounds:
\* Math.pow(10, logMin + (logRange * i) / (VIZ_COLS - 1))
freq(roots, logMin, logMax) ==
  [i \in 0..(VIZ_COLS - 1) |->
     [lo |-> Pow10(logMin.lo + MulDiv(logMax.lo - logMin.hi, i, VIZ_COLS - 1, FALSE),
                   roots.lo, FALSE),
      hi |-> Pow10(logMin.hi + MulDiv(logMax.hi - logMin.lo, i, VIZ_COLS - 1, TRUE),
                   roots.hi, TRUE)]]

\* the table of freq, computed once from the roots and the two logarithms
ColumnFreqs ==
  {freq(roots, logMin, logMax) :
     roots \in {Roots},
     logMin \in {[lo |-> Log10(MIN_FREQ, FALSE), hi |-> Log10(MIN_FREQ, TRUE)]},
     logMax \in {[lo |-> Log10(MAX_FREQ, FALSE), hi |-> Log10(MAX_FREQ, TRUE)]}}

\* Math.round((f / (SAMPLE_RATE / 2)) * availableBins) for a bound f of
\* freq; the quotient is kept in units of 1 / IndexScale before rounding
IndexScale == 2 ^ 20
RoundIndex(f, availableBins, up) ==
  LET scaled == MulDiv(f.mantissa, availableBins * 10 ^ f.exponent * 2,
                       SAMPLE_RATE * (One \div IndexScale), up)
  IN (scaled + IndexScale \div 2) \div IndexScale

\* map[i] = Math.min(maxIndex, Math.max(0, index))
ColumnIndex(f, availableBins, up) ==
  Min(availableBins - 1, Max(0, RoundIndex(f, availableBins, up)))

\* the bounds of map[i] for every column
IndexBounds(table, availableBins) ==
  [i \in 0..(VIZ_COLS - 1) |->
     [lo |-> ColumnIndex(table[i].lo, availableBins, FALSE),
      hi |-> ColumnIndex(table[i].hi, availableBins, TRUE)]]

\* the maps within the given bounds: one, unless for some column the bounds
\* of freq round to different bins
MapsWithin(bounds) ==
  {[i \in 0..(VIZ_COLS - 1) |->
      IF i \in rounded THEN bounds[i].hi ELSE bounds[i].lo] :
     rounded \in SUBSET {i \in 0..(VIZ_COLS - 1) : bounds[i].lo # bounds[i].hi}}

\* the maps logIndexMap can be for a frequency buffer of the given length
LogIndexMaps(length) ==
  UNION {MapsWithin(bounds) :
           bounds \in {IndexBounds(table, Max(1, length)) : table \in ColumnFreqs}}

\* frequencies are kept in units of 1 / SpectrumScale
SpectrumScale == 1000

\* an endIndex that gives the last column no bin of its own
endIndexOfNextColumn(map, i, length) == map[Min(i + 1, VIZ_COLS - 1)]

\* startIndex and endIndex of column i: the column reads the bins from its
\* own index up to the next column's, the last column one bin
startIndex(map, i) == map[i]
endIndex(map, i, length) ==
  IF i < VIZ_COLS - 1 THEN map[i + 1] ELSE Min(map[i] + 1, length)

\* sum += frequencyData[j] || 0, for j from from up to to
RECURSIVE SumBins(_, _, _)
SumBins(data, from, to) ==
  IF from >= to THEN 0
  ELSE (IF At(data, from) = Undefined THEN 0 ELSE At(data, from))
         + SumBins(data, from + 1, to)

\* newFreqs[i] = Math.min(100, (avg / 255) * 100 * (intensity / 50))
ColumnValue(data, map, i, gain) ==
  LET sum == SumBins(data, startIndex(map, i), endIndex(map, i, data.len))
      binCount == Max(1, endIndex(map, i, data.len) - startIndex(map, i))
  IN Min(100 * SpectrumScale,
         (sum * 2 * gain * SpectrumScale) \div (binCount * 255))

Columns(data, map, gain) ==
  [c \in 1..VIZ_COLS |-> ColumnValue(data, map, c - 1, gain)]

\* a decay without the constant term
DecayColumnsByFactor(prev) ==
  [c \in 1..Len(prev) |-> Max(0, (prev[c] * 95) \div 100)]

\* prev.map(f => Math.max(0, f * 0.95 - 1))
DecayColumns(prev) ==
  [c \in 1..Len(prev) |-> Max(0, (prev[c] * 95) \div 100 - SpectrumScale)]

\* one run of the analyzer's effect after a change of isActive, isPlaying,
\* frequencyData, logIndexMap or intensity: the cleanup of the run before
\* clears its decay interval; the body starts a decay interval when the
\* analyzer is inactive, and else aggregates the columns while playing
SpectrumEffect(active, playing, data, map, gain, prev, pageNow) ==
  IF ~active THEN [frequencies |-> prev, timer |-> pageNow + 50]
  ELSE IF playing /\ data.len > 0
    THEN [frequencies |-> Columns(data, map, gain), timer |-> 0]
  ELSE [frequencies |-> prev, timer |-> 0]

(***************************************************************************)
(* The page showing the spectrum analyzer instead of the player.  The      *)
(* provider keeps the playback state and the sample buffers the player's   *)
(* page left; the player is not mounted, so its timers and its frame       *)
(* callback do not run.                                                    *)
(***************************************************************************)
playerVars == <<monitorVars, loopVars, displayVars, scopeVars>>

\* the analyzer mounted and its effect run, over a provider whose buffers
\* a tier change allocated, with no analyser, the analyser play() created
\* or the analyser the tier change resized
SpectrumInit(signals, budget) ==
  /\ \E quality \in Tiers :
       /\ audioData = NewUint8Array(bufferSizes(quality))
       /\ frequencyData = NewUint8Array(bufferSizes(quality))
       /\ logIndexMap \in LogIndexMaps(bufferSizes(quality))
       /\ analyserFft \in {0, DefaultFftSize, fftSizes(quality)}
  /\ isPlaying \in BOOLEAN
  /\ audioTimer = IF isPlaying /\ analyserFft # 0 THEN AUDIO_UPDATE_INTERVAL
                  ELSE 0
  /\ frequencies = Filled(VIZ_COLS, 0)
  /\ isActive = FALSE
  /\ intensity = 70
  /\ spectrumTimer = 50
  /\ qualityLevel = "medium"
  /\ perf = InitialPerf
  /\ performanceWarnings = <<>>
  /\ autoQualityEnabled = TRUE
  /\ autoTimeouts = {}
  /\ sweepTimer = 0
  /\ animationFrameRef = 0
  /\ rafPending = {}
  /\ decayTimers = <<>>
  /\ lastMeterUpdate = 0
  /\ lastWaveformUpdate = 0
  /\ waveformBars = ResetBars("medium")
  /\ oscilloscopeData = Filled(DisplaySamples, 0)
  /\ meterData = InitialMeterData
  /\ oscilloscopeMode = "time"
  /\ timeScale = 10
  /\ zoomLevel = ZoomUnit
  /\ panOffset = 0
  /\ amplitudeZoom = 8
  /\ isDragging = FALSE
  /\ lastMouseX = 0
  /\ now = 0
  /\ framePeriod = 17
  /\ lastFrameTime = 0 - 1
  /\ signal \in signals
  /\ opsLeft = budget

\* no timer of the analyzer's page is due
SpectrumQuiet ==
  /\ audioTimer = 0 \/ audioTimer > now
  /\ spectrumTimer = 0 \/ spectrumTimer > now

\* a user event of the analyzer's page is handled
SpectrumEvent ==
  /\ opsLeft > 0
  /\ SpectrumQuiet
  /\ opsLeft' = opsLeft - 1
  /\ UNCHANGED <<playerVars, now, framePeriod, lastFrameTime>>

\* the analyzer re-renders: its effect runs again
SpectrumRender(active, playing, data, map, gain) ==
  LET effect == SpectrumEffect(active, playing, data, map, gain, frequencies,
                               now)
  IN /\ frequencies' = effect.frequencies
     /\ spectrumTimer' = effect.timer

\* the START / STOP button's onClick
SetIsActive ==
  /\ isActive' = ~isActive
  /\ SpectrumRender(isActive', isPlaying, frequencyData, logIndexMap, intensity)
  /\ SpectrumEvent
  /\ UNCHANGED <<providerVars, intensity, logIndexMap, signal>>

\* the intensity slider's onChange
SetIntensity(value) ==
  /\ value # intensity
  /\ intensity' = value
  /\ SpectrumRender(isActive, isPlaying, frequencyData, logIndexMap, value)
  /\ SpectrumEvent
  /\ UNCHANGED <<providerVars, isActive, logIndexMap, signal>>

\* the audio element's 'ended' event with the analyzer mounted: the
\* provider clears its read interval
SpectrumEnded ==
  /\ isPlaying
  /\ isPlaying' = FALSE
  /\ audioTimer' = 0
  /\ SpectrumRender(isActive, FALSE, frequencyData, logIndexMap, intensity)
  /\ SpectrumEvent
  /\ UNCHANGED <<analyserFft, audioData, frequencyData, isActive, intensity,
                 logIndexMap, signal>>

\* the audio backend delivers another signal
SpectrumSignal(sig) ==
  /\ sig # signal
  /\ signal' = sig
  /\ SpectrumEvent
  /\ UNCHANGED <<providerVars, spectrumVars>>

\* updateAudioData with the analyzer mounted: both buffers are read anew,
\* logIndexMap is computed again when their length changed, and the effect
\* runs
SpectrumUpdateAudioData ==
  /\ audioTimer # 0 /\ audioTimer <= now
  /\ audioTimer' = audioTimer + AUDIO_UPDATE_INTERVAL
  /\ audioData' = [len |-> analyserFft \div 2, pat |-> TimePattern(signal)]
  /\ frequencyData' = [len |-> analyserFft \div 2, pat |-> FreqPattern(signal)]
  /\ IF frequencyData'.len = frequencyData.len
       THEN logIndexMap' = logIndexMap
       ELSE logIndexMap' \in LogIndexMaps(frequencyData'.len)
  /\ SpectrumRender(isActive, isPlaying, frequencyData', logIndexMap',
                    intensity)
  /\ UNCHANGED <<isPlaying, analyserFft, isActive, intensity, playerVars,
                 envVars>>

\* the callback of the analyzer's decay interval, which clears the interval
\* once every column is 0
SpectrumDecay ==
  /\ spectrumTimer # 0 /\ spectrumTimer <= now
  /\ frequencies' = DecayColumns(frequencies)
  /\ spectrumTimer' = IF \A c \in 1..Len(frequencies') : frequencies'[c] = 0
                        THEN 0
                      ELSE spectrumTimer + 50
  /\ UNCHANGED <<providerVars, isActive, intensity, logIndexMap, playerVars,
                 envVars>>

\* time passes on the analyzer's page, up to the next timer
SpectrumAdvance(horizon) ==
  /\ SpectrumQuiet
  /\ now' = now + 50
  /\ now' <= horizon
  /\ UNCHANGED <<providerVars, playerVars, spectrumVars, framePeriod,
                 lastFrameTime, signal, opsLeft>>


(***************************************************************************)
(* Specifications.                                                         *)
(***************************************************************************)
\* the timers and the frame callback
SystemStep ==
  \/ Tick
  \/ UpdateAudioData
  \/ DecayTick
  \/ ExpirySweep
  \/ AutoAdjustFire

\* Spec: playback, tier changes and oscilloscope settings interleaved with
\* the render loop, frames arriving at a stalled page's rate
UserStep ==
  \/ \E contextOk \in BOOLEAN : Play(contextOk)
  \/ Pause
  \/ Stop
  \/ HandleEnded
  \/ HandleError
  \/ \E quality \in Tiers : SetQualityLevel(quality)
  \/ \E i \in 1..3 : ApplyQualitySuggestion(i)
  \/ ToggleAutoQuality
  \/ ZoomIn
  \/ ZoomOut
  \/ \E mode \in {"time", "freq"} : SetOscilloscopeMode(mode)
  \/ \E sig \in Signals : ChangeSignal(sig)

Next ==
  \/ UserStep
  \/ SystemStep
  \/ Advance(MaxTime, 500)

Spec == Init(StallPeriods, {"full"}, MaxOps) /\ [][Next]_vars

\* PerfSpec: the performance monitor over a long playback.  The tier and
\* the auto-adjust switch are set while playback is stopped; the frame
\* period is that of a display at about 60 fps or of one that delivers 20
\* measured frames a second, and changes between performance checks.
SelectQualityStopped(quality) == ~isPlaying /\ SetQualityLevel(quality)

ToggleAutoQualityStopped == ~isPlaying /\ ToggleAutoQuality

PerfNext ==
  \/ Play(TRUE)
  \/ \E quality \in Tiers : SelectQualityStopped(quality)
  \/ ToggleAutoQualityStopped
  \/ \E period \in FramePeriods : ChangeRate(period)
  \/ SystemStep
  \/ Advance(PerfMaxTime, 1000)

PerfSpec == Init(FramePeriods, {"silence"}, PerfMaxOps) /\ [][PerfNext]_vars

\* NominalSpec: playback at tier 'medium' on a display at about 60 fps,
\* started at any time after the page was loaded and left alone
NominalNext ==
  \/ Play(TRUE)
  \/ SystemStep
  \/ Advance(PerfMaxTime, 500)

NominalSpec == Init(NominalPeriods, {"silence"}, 1) /\ [][NominalNext]_vars

\* ScopeSpec: the oscilloscope's zoom, pan, drag and time-scale controls
\* while playback is stopped
ScopeNext ==
  \/ ZoomIn
  \/ ZoomOut
  \/ ResetZoom
  \/ \E shiftKey \in BOOLEAN, up \in BOOLEAN : HandleWheel(shiftKey, up)
  \/ \E clientX \in MouseXs : HandleMouseDown(clientX)
  \/ \E clientX \in MouseXs : MouseMoveElement(clientX)
  \/ \E clientX \in MouseXs : MouseMoveDocument(clientX)
  \/ HandleMouseUp
  \/ \E scale \in {1, 2, 5, 10} : SetTimeScale(scale)
  \/ DecayTick
  \/ ExpirySweep
  \/ Advance(MaxTime, 500)

ScopeSpec == Init(StallPeriods, {"full"}, ScopeMaxOps) /\ [][ScopeNext]_vars

\* SpectrumSpec: the page showing the spectrum analyzer, over every buffer
\* length the tiers produce
Intensities == {0, 70, 100}
SpectrumNext ==
  \/ SetIsActive
  \/ \E value \in Intensities : SetIntensity(value)
  \/ SpectrumEnded
  \/ \E sig \in Signals : SpectrumSignal(sig)
  \/ SpectrumUpdateAudioData
  \/ SpectrumDecay
  \/ SpectrumAdvance(SpectrumMaxTime)

SpectrumSpec == SpectrumInit(Signals, SpectrumMaxOps) /\ [][SpectrumNext]_vars

\* MeterSpec: the signal processors and the meter update of updateVisuals
\* as functions of the sample buffer, over every buffer of up to MaxSamples
\* bytes, the empty one included
SampleBuffers ==
  {[len |-> n, pat |-> p] : n \in 0..MaxSamples, p \in Patterns}

MeterInit(budget) ==
  /\ audioData \in SampleBuffers
  /\ frequencyData = NewUint8Array(audioData.len)
  /\ isPlaying = FALSE
  /\ analyserFft = 0
  /\ audioTimer = 0
  /\ qualityLevel = "medium"
  /\ perf = InitialPerf
  /\ performanceWarnings = <<>>
  /\ autoQualityEnabled = TRUE
  /\ autoTimeouts = {}
  /\ sweepTimer = 0
  /\ animationFrameRef = 0
  /\ rafPending = {}
  /\ decayTimers = <<>>
  /\ lastMeterUpdate = 0
  /\ lastWaveformUpdate = 0
  /\ waveformBars = ResetBars("medium")
  /\ oscilloscopeData = Filled(DisplaySamples, 0)
  /\ meterData = InitialMeterData
  /\ oscilloscopeMode = "time"
  /\ timeScale = 10
  /\ zoomLevel = ZoomUnit
  /\ panOffset = 0
  /\ amplitudeZoom = 8
  /\ isDragging = FALSE
  /\ lastMouseX = 0
  /\ frequencies = <<>>
  /\ isActive = FALSE
  /\ intensity = 70
  /\ logIndexMap = <<>>
  /\ spectrumTimer = 0
  /\ now = 0
  /\ framePeriod = 17
  /\ lastFrameTime = 0 - 1
  /\ signal = "silence"
  /\ opsLeft = budget

\* the meter update of updateVisuals, applied to the buffer
MeterUpdate ==
  /\ opsLeft > 0
  /\ audioData.len > 0
  /\ meterData' = UpdateMeters(meterData, audioData)
  /\ opsLeft' = opsLeft - 1
  /\ UNCHANGED <<providerVars, monitorVars, loopVars, waveformBars,
                 oscilloscopeData, scopeVars, spectrumVars, now, framePeriod,
                 lastFrameTime, signal>>

\* the processors are handed another buffer
NextBuffer(samples) ==
  /\ samples # audioData
  /\ audioData' = samples
  /\ frequencyData' = NewUint8Array(samples.len)
  /\ UNCHANGED <<isPlaying, analyserFft, audioTimer, monitorVars, loopVars,
                 displayVars, scopeVars, spectrumVars, envVars>>

MeterNext ==
  \/ MeterUpdate
  \/ \E samples \in SampleBuffers : NextBuffer(samples)

MeterSpec == MeterInit(MeterMaxOps) /\ [][MeterNext]_vars

\* SettleSpec: the page shows the player, at tier 'medium' with frames at
\* the nominal rate, or it shows the spectrum analyzer; on the player's
\* page playback starts with the page, over a signal at full scale that
\* falls silent within SilenceBy and stays silent.
PlayerShown == frequencies = <<>>

StartPlaying == now = 0 /\ Play(TRUE)

FallSilent == now <= SilenceBy /\ ChangeSignal("silence")

PlayerStep ==
  \/ Tick
  \/ UpdateAudioData
  \/ DecayTick
  \/ ExpirySweep
  \/ Advance(SettleMaxTime, 500)

SettleNext ==
  \/ PlayerShown /\ StartPlaying
  \/ PlayerShown /\ FallSilent
  \/ PlayerShown /\ PlayerStep
  \/ ~PlayerShown /\ SpectrumNext

SettleInit ==
  \/ Init(NominalPeriods, {"full"}, 2)
  \/ SpectrumInit(Signals, 2)

\* Tick's guard: ENABLED <<Tick>>_vars
TickDue == TimersQuiet /\ lastFrameTime < now /\ rafPending # {}

\* The browser runs every timer callback that is due and every pending
\* frame callback, and time passes: weak fairness of the read interval, of
\* the expiry interval, of the decay timers, of time and of Tick, the last
\* written out with Tick's guard for ENABLED <<Tick>>_vars.
SettleFairness ==
  /\ WF_vars(PlayerShown /\ UpdateAudioData)
  /\ WF_vars(PlayerShown /\ ExpirySweep)
  /\ WF_vars(PlayerShown /\ DecayTick)
  /\ WF_vars(PlayerShown /\ Advance(SettleMaxTime, 500))
  /\ \/ []<>(~(PlayerShown /\ TickDue))
     \/ []<><<PlayerShown /\ Tick>>_vars

SettleSpec == SettleInit /\ [][SettleNext]_vars /\ SettleFairness

\* TraceSpec: updateOscilloscopeData as a function of the view's settings
\* and of the sample buffers, over every zoom level, time scale and
\* amplitude zoom, the pan offsets 0, 50 and 100, and every buffer length
\* the tiers produce, playback being active
PanOffsets == {0, 50 * PanScale, 100 * PanScale}

TraceInit ==
  /\ \E quality \in Tiers, pat \in Patterns :
       /\ qualityLevel = quality
       /\ audioData = [len |-> bufferSizes(quality), pat |-> pat]
       /\ frequencyData = [len |-> bufferSizes(quality), pat |-> pat]
       /\ waveformBars = ResetBars(quality)
  /\ isPlaying = TRUE
  /\ analyserFft = 0
  /\ audioTimer = 0
  /\ perf = InitialPerf
  /\ performanceWarnings = <<>>
  /\ autoQualityEnabled = TRUE
  /\ autoTimeouts = {}
  /\ sweepTimer = 1000
  /\ animationFrameRef = 0
  /\ rafPending = {}
  /\ decayTimers = <<>>
  /\ lastMeterUpdate = 0
  /\ lastWaveformUpdate = 0
  /\ oscilloscopeData = Filled(DisplaySamples, 0)
  /\ meterData = InitialMeterData
  /\ oscilloscopeMode \in {"time", "freq"}
  /\ timeScale \in {1, 2, 5, 10}
  /\ zoomLevel \in {levels[i] : i \in 1..Len(levels)}
  /\ panOffset \in PanOffsets
  /\ amplitudeZoom \in {amplitudeLevels[i] : i \in 1..Len(amplitudeLevels)}
  /\ isDragging = FALSE
  /\ lastMouseX = 0
  /\ frequencies = <<>>
  /\ isActive = FALSE
  /\ intensity = 70
  /\ logIndexMap = <<>>
  /\ spectrumTimer = 0
  /\ now = 0
  /\ framePeriod = 17
  /\ lastFrameTime = 0 - 1
  /\ signal = "silence"
  /\ opsLeft = 1

\* updateOscilloscopeData, applied to the settings and the buffers
TraceUpdate ==
  /\ opsLeft > 0
  /\ oscilloscopeData' =
       updateOscilloscopeData(oscilloscopeData, isPlaying, oscilloscopeMode,
                              audioData, frequencyData, timeScale, zoomLevel,
                              panOffset, amplitudeZoom)
  /\ opsLeft' = opsLeft - 1
  /\ UNCHANGED <<providerVars, monitorVars, loopVars, waveformBars, meterData,
                 scopeVars, spectrumVars, now, framePeriod, lastFrameTime,
                 signal>>

TraceNext == TraceUpdate

TraceSpec == TraceInit /\ [][TraceNext]_vars

\* DecaySpec: the decay loop after a pause.  Playback has run for up to
\* MaxUpdates meter updates on one sample buffer and is paused at time 0, which
\* starts a decay timer; playback then stays stopped
RECURSIVE MetersAfter(_, _)
\* the meters after k meter updates that read data
MetersAfter(k, data) ==
  IF k = 0 THEN InitialMeterData ELSE UpdateMeters(MetersAfter(k - 1, data), data)

DecayInit ==
  /\ isPlaying = FALSE
  /\ analyserFft = fftSizes("medium")
  /\ \E pat \in Patterns, k \in 1..MaxUpdates :
       /\ audioData = [len |-> bufferSizes("medium"), pat |-> pat]
       /\ frequencyData = [len |-> bufferSizes("medium"), pat |-> pat]
       /\ meterData = MetersAfter(k, audioData)
  /\ audioTimer = 0
  /\ qualityLevel = "medium"
  /\ perf = InitialPerf
  /\ performanceWarnings = <<>>
  /\ autoQualityEnabled = TRUE
  /\ autoTimeouts = {}
  /\ sweepTimer = 1000
  /\ LET paused ==
           StartStopEffect(FALSE, [ref |-> 1, pending |-> {1}, timers |-> <<>>], 0)
     IN /\ animationFrameRef = paused.ref
        /\ rafPending = paused.pending
        /\ decayTimers = paused.timers
  /\ lastMeterUpdate = 0
  /\ lastWaveformUpdate = 0
  /\ waveformBars = ResetBars("medium")
  /\ oscilloscopeData = Filled(DisplaySamples, 0)
  /\ oscilloscopeMode = "time"
  /\ timeScale = 10
  /\ zoomLevel = ZoomUnit
  /\ panOffset = 0
  /\ amplitudeZoom = 8
  /\ isDragging = FALSE
  /\ lastMouseX = 0
  /\ frequencies = <<>>
  /\ isActive = FALSE
  /\ intensity = 70
  /\ logIndexMap = <<>>
  /\ spectrumTimer = 0
  /\ now = 0
  /\ framePeriod = 17
  /\ lastFrameTime = 0 - 1
  /\ signal = "silence"
  /\ opsLeft = 0

DecayNext ==
  \/ DecayTick
  \/ ExpirySweep
  \/ Advance(DecayMaxTime, 500)

DecaySpec == DecayInit /\ [][DecayNext]_vars

\* AdjustSpec: the delayed downgrade against the user's tier selections.
\* Frames arrive at a stalled page's rate; the user selects tiers and
\* switches the auto-adjustment at any time, before and during playback
AdjustNext ==
  \/ Play(TRUE)
  \/ \E quality \in Tiers : SetQualityLevel(quality)
  \/ ToggleAutoQuality
  \/ SystemStep
  \/ Advance(AdjustMaxTime, 1000)

AdjustSpec == Init(StallPeriods, {"silence"}, AdjustMaxOps) /\ [][AdjustNext]_vars

\* FadeSpec: the analyzer's fade.  Playback runs on a non-silent signal;
\* the analyzer is started and stopped, the last stop by FadeBy, and the
\* intensity and the buffers change while the columns decay
FadeInit ==
  /\ SpectrumInit({"full", "ramp"}, FadeMaxOps)
  /\ isPlaying
  /\ analyserFft # 0

FadeToggle == (isActive => now <= FadeBy) /\ SetIsActive

FadeNext ==
  \/ FadeToggle
  \/ \E value \in Intensities : SetIntensity(value)
  \/ SpectrumEnded
  \/ SpectrumUpdateAudioData
  \/ SpectrumDecay
  \/ SpectrumAdvance(FadeMaxTime)

\* The browser runs the decay interval's and the read interval's callbacks
\* when they are due, and time passes
FadeFairness ==
  /\ WF_vars(SpectrumDecay)
  /\ WF_vars(SpectrumAdvance(FadeMaxTime))
  /\ \/ []<>(audioTimer = 0 \/ audioTimer > now)
     \/ []<><<SpectrumUpdateAudioData>>_vars

FadeSpec == FadeInit /\ [][FadeNext]_vars /\ FadeFairness

\* RateSpec: the monitor's counters and estimates on a display that
\* delivers about 33 or about 20 measured frames a second; the tier is set
\* while playback is stopped
RatePeriods == {30, 51}

RateNext ==
  \/ Play(TRUE)
  \/ \E quality \in Tiers : SelectQualityStopped(quality)
  \/ \E period \in RatePeriods : ChangeRate(period)
  \/ SystemStep
  \/ Advance(RateMaxTime, 1000)

RateSpec == Init(RatePeriods, {"silence"}, RateMaxOps) /\ [][RateNext]_vars

(***************************************************************************)
(* Properties.                                                             *)
(***************************************************************************)
\* C1: when the measured frame rate was 20 fps at the last three
\* performance checks while playing and the 5 second cooldown has elapsed,
\* the check emits exactly one fps_critical warning; no check emits more
\* than one, and one is emitted only when 5 seconds have passed since the
\* monitor's last warning, so two of them are at least 5 seconds apart; the
\* tier it suggests is strictly lower than the active tier, or 'low' when
\* the active tier is 'low'.
C1_CriticalOncePerCooldown ==
  /\ [](\A i, j \in 1..Len(performanceWarnings) :
          (/\ i < j
           /\ performanceWarnings[i].type = "fps_critical"
           /\ performanceWarnings[j].type = "fps_critical")
            => performanceWarnings[j].timestamp
                 - performanceWarnings[i].timestamp >= 5000)
  /\ [][lastFrameTime' # lastFrameTime =>
          LET dateNow == now + EpochOffset
              added == SubSeq(performanceWarnings',
                              Len(performanceWarnings) + 1,
                              Len(performanceWarnings'))
              crit == SelectSeq(added, LAMBDA w : w.type = "fps_critical")
              hist == perf'.fpsHistory
              n == Len(hist)
              held == /\ perf'.lastUpdate # perf.lastUpdate
                      /\ isPlaying
                      /\ n >= 3
                      /\ hist[n] = 20 /\ hist[n - 1] = 20 /\ hist[n - 2] = 20
              elapsed == dateNow - perf.lastWarningTime >= 5000
          IN /\ Len(crit) <= 1
             /\ (held /\ elapsed) => Len(crit) = 1
             /\ Len(crit) = 1 =>
                  /\ elapsed
                  /\ crit[1].timestamp = dateNow
                  /\ perf'.lastWarningTime = dateNow
                  /\ \/ TierRank(crit[1].suggestedQuality) < TierRank(qualityLevel)
                     \/ /\ qualityLevel = "low"
                        /\ crit[1].suggestedQuality = "low"]_vars

\* C1 witness: playing, the last three readings are 20 fps, the last check
\* emitted an fps_critical warning suggesting 'low' at tier 'low', and an
\* earlier fps_critical warning of the same playback is still listed
C1_Witness ==
  LET hist == perf.fpsHistory
      n == Len(hist)
  IN /\ isPlaying
     /\ qualityLevel = "low"
     /\ n >= 3 /\ hist[n] = 20 /\ hist[n - 1] = 20 /\ hist[n - 2] = 20
     /\ \E i, j \in 1..Len(performanceWarnings) :
          /\ i < j
          /\ performanceWarnings[i].type = "fps_critical"
          /\ performanceWarnings[j].type = "fps_critical"
          /\ performanceWarnings[j].suggestedQuality = "low"
          /\ performanceWarnings[j].timestamp = perf.lastUpdate + EpochOffset

\* C2: at tier 'medium', playing, at a nominal frame rate from the first
\* tick on, the list of performance warnings stays empty
C2_NoWarningAtNominalRate ==
  (isPlaying /\ qualityLevel = "medium") => performanceWarnings = <<>>

\* C3: at most one frame callback of the render loop is pending
C3_OneFramePending == Cardinality(rafPending) <= 1

\* C3 witness: playback started, the tier and the zoom changed, the sample
\* buffers were updated, and a frame callback requested after all that is
\* pending
C3_Witness ==
  /\ isPlaying
  /\ qualityLevel # "medium"
  /\ zoomLevel # ZoomUnit
  /\ audioData.pat = "full"
  /\ Cardinality(rafPending) = 1
  /\ animationFrameRef \in rafPending

\* C4: at most one meter decay timer is live
C4_OneDecayTimer == Len(decayTimers) <= 1

\* C5: while playback is inactive no frame callback is pending; a tick runs
\* only while playback is active, and the frame callback it leaves pending
\* is one it scheduled while playback was active
C5_LoopSelfTerminating ==
  /\ [](~isPlaying => rafPending = {})
  /\ [][lastFrameTime' # lastFrameTime =>
          /\ isPlaying
          /\ rafPending' # {} => isPlaying']_vars

\* C5 witness: ticks ran, playback became inactive, time passed since the
\* last tick and no frame callback is pending
C5_Witness ==
  /\ ~isPlaying
  /\ lastFrameTime >= 0
  /\ now > lastFrameTime
  /\ animationFrameRef # 0
  /\ rafPending = {}

\* C6: the pan offset is within [0, 100], and it is 0 whenever the zoom level
\* is at or below 1x
C6_PanClampedAndResetAtBaseline ==
  /\ panOffset >= 0
  /\ panOffset <= 100 * PanScale
  /\ zoomLevel <= ZoomUnit => panOffset = 0

\* C7: the bar array always has the bar count of the active tier, and a
\* switch from 'high' to 'low' takes it from 32 bars to 12
C7_BarsMatchTier ==
  /\ [](Len(waveformBars) = getWaveformBars(qualityLevel))
  /\ [][(qualityLevel = "high" /\ qualityLevel' = "low") =>
          (Len(waveformBars) = 32 /\ Len(waveformBars') = 12)]_vars

\* C7 witness: playing at tier 'low'; the last performance check was made
\* while playing at tier 'high'; the auto-adjustment then switched the tier,
\* a tick has run since the switch, and there are 12 bars
C7_Witness ==
  /\ isPlaying
  /\ qualityLevel = "low"
  /\ perf.memoryUsage = 75 * MemScale
  /\ Len(waveformBars) = 12
  /\ \E i \in 1..Len(performanceWarnings) :
       /\ performanceWarnings[i].suggestedQuality = "none"
       /\ lastFrameTime + EpochOffset > performanceWarnings[i].timestamp

\* C8: a tier change sets the analyser's window size to the new tier's and
\* leaves the waveform bars and the oscilloscope buffer all zero
C8_TierChangeZeroesBuffers ==
  [][qualityLevel' # qualityLevel =>
       /\ analyserFft' = fftSizes(qualityLevel')
       /\ waveformBars' = Filled(getWaveformBars(qualityLevel'), 0)
       /\ \A i \in DOMAIN oscilloscopeData' : oscilloscopeData'[i] = 0]_vars

\* C9: while a frame callback is pending, both sample buffers have the
\* length of the active tier, half its analysis window size
C9_BuffersMatchTier ==
  rafPending # {} =>
    /\ audioData.len = fftSizes(qualityLevel) \div 2
    /\ frequencyData.len = fftSizes(qualityLevel) \div 2

\* C10: a meter update from VU 0 and PPM 0 with an RMS and a peak of 100
\* leaves the PPM level at or above the VU level
C10_PpmAtLeastVuAfterStep ==
  [][(/\ lastFrameTime' # lastFrameTime
      /\ meterData.vuLeft = 0
      /\ meterData.ppmLeft = 0
      /\ meterData' # meterData
      /\ LET left == Subarray(audioData, 0, audioData.len \div 2)
         IN /\ calculateRMS(left) = 100 * MeterScale
            /\ calculatePeak(left) = 100 * MeterScale)
       => meterData'.ppmLeft >= meterData'.vuLeft]_vars

\* C11: on a meter update each peak hold ends at or above the value
\* measured in that tick, and when the measured value does not exceed the
\* hold the hold does not rise: it is the larger of the measured value and
\* the old hold times 0.98 (VU) or 0.99 (PPM)
C11_PeakHoldsBoundAndDecay ==
  [][(lastFrameTime' # lastFrameTime /\ meterData' # meterData) =>
       LET halfLength == audioData.len \div 2
           left == Subarray(audioData, 0, halfLength)
           right == Subarray(audioData, halfLength, audioData.len)
           Held(hold, holdAfter, value, factor) ==
             /\ holdAfter >= value
             /\ value <= hold => holdAfter <= hold
             /\ holdAfter = Max(value, (hold * factor) \div 100)
       IN /\ Held(meterData.vuPeakLeft, meterData'.vuPeakLeft,
                  calculateRMS(left), 98)
          /\ Held(meterData.vuPeakRight, meterData'.vuPeakRight,
                  calculateRMS(right), 98)
          /\ Held(meterData.ppmPeakLeft, meterData'.ppmPeakLeft,
                  calculatePeak(left), 99)
          /\ Held(meterData.ppmPeakRight, meterData'.ppmPeakRight,
                  calculatePeak(right), 99)]_vars

\* C11 witness: playing, a meter update has just run, and both left holds
\* have decayed from 100 to above the values the buffer now gives
C11_Witness ==
  LET left == Subarray(audioData, 0, audioData.len \div 2)
  IN /\ isPlaying
     /\ lastMeterUpdate = now
     /\ meterData.vuPeakLeft = 98 * MeterScale
     /\ meterData.ppmPeakLeft = 99 * MeterScale
     /\ calculateRMS(left) < meterData.vuPeakLeft
     /\ calculatePeak(left) < meterData.ppmPeakLeft

\* C12: while playback is inactive the oscilloscope display buffer is 128
\* zeros
C12_ScopeZeroWhileInactive ==
  ~isPlaying => oscilloscopeData = Filled(DisplaySamples, 0)

\* C13: an expiry sweep removes every warning created 10 seconds ago or
\* earlier and keeps, in order, every warning younger than 10 seconds; so a
\* warning is gone after the first sweep at or after 10 seconds from its
\* creation, and no sweep removes it before
C13_ExpiryAtTenSeconds ==
  [][sweepTimer' # sweepTimer =>
       LET dateNow == now + EpochOffset
       IN /\ \A i \in 1..Len(performanceWarnings') :
               dateNow - performanceWarnings'[i].timestamp < 10000
          /\ performanceWarnings' =
               SelectSeq(performanceWarnings,
                         LAMBDA w : dateNow - w.timestamp < 10000)
          /\ \A i \in 1..Len(performanceWarnings) :
               dateNow - performanceWarnings[i].timestamp < 10000
                 => \E j \in 1..Len(performanceWarnings') :
                      performanceWarnings'[j] = performanceWarnings[i]]_vars

\* C13 witness: after a sweep, the synthetic warning of an auto-adjustment
\* is listed, between 9 and 10 seconds old, and the critical warning that
\* scheduled the adjustment, a second older, is no longer listed
C13_Witness ==
  /\ sweepTimer > now
  /\ \E i \in 1..Len(performanceWarnings) :
       LET w == performanceWarnings[i]
       IN /\ w.suggestedQuality = "none"
          /\ now + EpochOffset - w.timestamp >= 9000
          /\ now + EpochOffset - w.timestamp < 10000
          /\ \A j \in 1..Len(performanceWarnings) :
               performanceWarnings[j].timestamp >= w.timestamp

\* C14: any two listed warnings added at different instants, the synthetic
\* warning of an auto-adjustment included, were added at least 5 seconds
\* apart
C14_EmissionsFiveSecondsApart ==
  \A i, j \in 1..Len(performanceWarnings) :
    performanceWarnings[i].timestamp < performanceWarnings[j].timestamp
      => performanceWarnings[j].timestamp
           - performanceWarnings[i].timestamp >= 5000

\* the windows [startIndex, endIndex) of the 140 columns are contiguous,
\* start at bin 0 and end at the buffer's end, and every bin of a buffer of
\* the given length is in exactly one of them
WindowsPartition(map, length) ==
  LET InWindow(j, i) == startIndex(map, i) <= j /\ j < endIndex(map, i, length)
  IN /\ startIndex(map, 0) = 0
     /\ endIndex(map, VIZ_COLS - 1, length) = length
     /\ \A i \in 0..(VIZ_COLS - 2) :
          /\ startIndex(map, i) <= endIndex(map, i, length)
          /\ endIndex(map, i, length) = startIndex(map, i + 1)
     /\ \A j \in 0..(length - 1) :
          Cardinality({i \in 0..(VIZ_COLS - 1) : InWindow(j, i)}) = 1

\* C15: for every buffer length the tiers produce (32, 64, 128, 256), the
\* windows [startIndex, endIndex) of the 140 columns are contiguous, start at
\* bin 0 and end at the buffer's end, and every bin of the buffer is in
\* exactly one of them: so it is when the analyzer mounts, and so it is
\* again whenever the buffer's length or the map changes
C15_ColumnWindowsPartitionBins ==
  /\ frequencyData.len \in {bufferSizes(quality) : quality \in Tiers}
  /\ WindowsPartition(logIndexMap, frequencyData.len)
  /\ [][(logIndexMap' # logIndexMap \/ frequencyData'.len # frequencyData.len)
          => /\ frequencyData'.len \in {bufferSizes(quality) : quality \in Tiers}
             /\ WindowsPartition(logIndexMap', frequencyData'.len)]_vars

\* C15 witness: the analyzer has aggregated a 256-bin buffer at full scale,
\* and the last column, which reads the last bin, is at its maximum
C15_Witness ==
  /\ isActive /\ isPlaying
  /\ frequencyData = [len |-> 256, pat |-> "full"]
  /\ startIndex(logIndexMap, VIZ_COLS - 1) = 255
  /\ frequencies[VIZ_COLS] = 100 * SpectrumScale

\* the two halves updateVisuals hands to the processors
leftSamples == Subarray(audioData, 0, audioData.len \div 2)
rightSamples == Subarray(audioData, audioData.len \div 2, audioData.len)

\* C16: for every input buffer of 8-bit samples calculateRMS and
\* calculatePeak return a value within [0, 100], and for a buffer whose
\* samples are all 128 both return exactly 0
C16_ProcessorsWithinRange ==
  \A samples \in {leftSamples, rightSamples} :
    /\ calculateRMS(samples) \in 0..(100 * MeterScale)
    /\ calculatePeak(samples) \in 0..(100 * MeterScale)
    /\ samples.pat = "mid" =>
         calculateRMS(samples) = 0 /\ calculatePeak(samples) = 0

\* every derived meter value is a number
Defined(m) ==
  /\ \A f \in {"vuLeft", "vuRight", "ppmLeft", "ppmRight", "vuPeakLeft",
               "vuPeakRight", "ppmPeakLeft", "ppmPeakRight", "loudness",
               "correlation"} : ~IsNaN(m[f])
  /\ \A i \in 1..Len(m.phasePoints) :
       ~IsNaN(m.phasePoints[i].x) /\ ~IsNaN(m.phasePoints[i].y)

\* C17: for a sample buffer of length 0 calculateRMS and calculatePeak
\* return 0, and a meter update whose left or right half-buffer is empty
\* leaves every derived meter value defined
C17_EmptyBufferAtRest ==
  /\ \A samples \in {leftSamples, rightSamples} :
       samples.len = 0 =>
         calculateRMS(samples) = 0 /\ calculatePeak(samples) = 0
  /\ [][(meterData' # meterData
          /\ (leftSamples.len = 0 \/ rightSamples.len = 0)
          /\ Defined(meterData))
         => Defined(meterData')]_vars

\* C18: while playback is active and no analyser exists, so that no sample
\* has ever been read and the buffers are the zero-filled arrays, the VU and
\* PPM levels and their peak holds are 0 and the oscilloscope shows a zero
\* trace
C18_RestOutputWithoutBackend ==
  (isPlaying /\ analyserFft = 0) =>
    /\ audioData.pat = "zero" /\ frequencyData.pat = "zero"
    /\ \A f \in {"vuLeft", "vuRight", "ppmLeft", "ppmRight", "vuPeakLeft",
                 "vuPeakRight", "ppmPeakLeft", "ppmPeakRight"} :
         meterData[f] = 0
    /\ oscilloscopeData = Filled(DisplaySamples, 0)

\* C19: no tier below the active one has a larger analysis buffer, more
\* waveform bars or more meter segments than the active tier, nor a shorter
\* meter, waveform or performance-check interval; the active tier ranges
\* over all four tiers, so the registry is monotone over
\* ultra > high > medium > low
C19_RegistryMonotone ==
  \A lower \in Tiers :
    TierRank(lower) <= TierRank(qualityLevel) =>
      /\ bufferSizes(lower) <= bufferSizes(qualityLevel)
      /\ fftSizes(lower) <= fftSizes(qualityLevel)
      /\ getWaveformBars(lower) <= getWaveformBars(qualityLevel)
      /\ getSegmentCount(lower) <= getSegmentCount(qualityLevel)
      /\ getUpdateIntervals(lower).meter >= getUpdateIntervals(qualityLevel).meter
      /\ getUpdateIntervals(lower).waveform
           >= getUpdateIntervals(qualityLevel).waveform
      /\ getUpdateIntervals(lower).performance
           >= getUpdateIntervals(qualityLevel).performance

\* C19 witness: the player has been switched to the highest tier while
\* playing, and its buffers and bars have that tier's sizes, larger than
\* those of the tier it started in
C19_Witness ==
  /\ qualityLevel = "ultra" /\ isPlaying
  /\ audioData.len = bufferSizes("ultra")
  /\ audioData.len > bufferSizes("medium")
  /\ Len(waveformBars) = getWaveformBars("ultra")
  /\ Len(waveformBars) > getWaveformBars("medium")

\* the VU and PPM levels of both channels
Levels(m) == <<m.vuLeft, m.vuRight, m.ppmLeft, m.ppmRight>>

AllBelowOne(m) == \A i \in 1..4 : Levels(m)[i] < MeterScale

\* C20: the player stays at tier 'medium' with 64-bin buffers; once the input
\* is silent and stays silent, the VU and PPM levels of both channels
\* eventually are all below 1; a meter update that reads a silent buffer raises no level and
\* lowers every level that is above 0; and a spectrum update of the running
\* analyzer that reads a silent 64-bin buffer sets every column to 0
C20_SilenceSettles ==
  /\ [](PlayerShown => qualityLevel = "medium" /\ audioData.len = 64)
  /\ (PlayerShown /\ isPlaying /\ signal = "silence")
       ~> AllBelowOne(meterData)
  /\ [][(PlayerShown /\ lastMeterUpdate' # lastMeterUpdate
          /\ audioData = [len |-> 64, pat |-> "mid"])
         => \A i \in 1..4 :
              /\ Levels(meterData')[i] <= Levels(meterData)[i]
              /\ Levels(meterData)[i] > 0
                   => Levels(meterData')[i] < Levels(meterData)[i]]_vars
  /\ [][(~PlayerShown /\ audioTimer' # audioTimer /\ isActive /\ isPlaying
          /\ frequencyData' = [len |-> 64, pat |-> "zero"])
         => frequencies' = Filled(VIZ_COLS, 0)]_vars

\* C20 witness: playback goes on over a silent input and all four levels
\* have fallen below 1, from levels that had the peak hold of the PPM above
\* 30
C20_Witness ==
  /\ PlayerShown /\ isPlaying /\ signal = "silence"
  /\ qualityLevel = "medium"
  /\ audioData = [len |-> 64, pat |-> "mid"]
  /\ AllBelowOne(meterData)
  /\ meterData.ppmPeakLeft > 30 * MeterScale

\* C21: in time mode, for every zoom level, time scale, amplitude zoom, pan
\* offset and buffer length, every sample index the oscilloscope update
\* reads lies within the buffer, and after the update every one of the 128
\* display values is a number within [-1, 1]
C21_TimeTraceWithinBuffer ==
  (oscilloscopeMode = "time" /\ opsLeft = 0) =>
    /\ LET w == TimeWindow(audioData.len, timeScale, zoomLevel, panOffset)
       IN \A i \in 0..(DisplaySamples - 1) :
            TimeSampleIndex(w, i) \in 0..(audioData.len - 1)
    /\ \A i \in 1..DisplaySamples :
         /\ ~IsNaN(oscilloscopeData[i])
         /\ oscilloscopeData[i] \in (0 - OscScale)..OscScale

\* C22: in every reachable state all eight meter values lie within
\* [0, 100], the loudness within [-60, 0], the correlation within [-1, 1]
\* and both coordinates of every phase-scope point within [-1, 1]
C22_MetersWithinRange ==
  /\ \A f \in {"vuLeft", "vuRight", "ppmLeft", "ppmRight", "vuPeakLeft",
               "vuPeakRight", "ppmPeakLeft", "ppmPeakRight"} :
       meterData[f] \in 0..(100 * MeterScale)
  /\ meterData.loudness \in (0 - 60 * MeterScale)..0
  /\ meterData.correlation \in (0 - CorrScale)..CorrScale
  /\ \A i \in 1..Len(meterData.phasePoints) :
       /\ meterData.phasePoints[i].x \in (0 - 128)..128
       /\ meterData.phasePoints[i].y \in (0 - 128)..128

\* a meter update has raised the holds to the clamp and a decay step of the
\* loop a pause started has lowered the levels since
C22_Witness ==
  /\ ~isPlaying
  /\ meterData.vuPeakLeft > 80 * MeterScale
  /\ meterData.vuPeakLeft < 100 * MeterScale
  /\ meterData.vuLeft > 0
  /\ meterData.vuLeft < meterData.vuPeakLeft
  /\ Len(meterData.phasePoints) = 8
  /\ meterData.correlation > 0

\* every peak hold is under 1
HoldsBelowOne(m) ==
  \A f \in {"vuPeakLeft", "vuPeakRight", "ppmPeakLeft", "ppmPeakRight"} :
    m[f] < MeterScale

\* C23: at the moment a decay loop halts, every VU level, PPM level, VU
\* peak hold and PPM peak hold is below 1 and the correlation is within
\* 0.01 of zero; the loop does not halt while a peak hold is at 1 or above
C23_DecayHaltsAtRest ==
  [][(~isPlaying /\ Len(decayTimers') < Len(decayTimers)) =>
       /\ AllBelowOne(meterData')
       /\ HoldsBelowOne(meterData')
       /\ 100 * meterData'.correlation \in (0 - CorrScale)..CorrScale]_vars

\* C24: no decay timer is live while playback is active, and no decay step
\* changes the meters while playback is active
C24_NoDecayWhilePlaying ==
  /\ [](isPlaying => decayTimers = <<>>)
  /\ [][(isPlaying /\ decayTimers' # decayTimers) =>
          meterData' = meterData]_vars

\* C25: the warning-expiry timer is live only while needed: a sweep that
\* leaves the warning list empty cancels the timer, so that no further sweep
\* is due (sweepTimer, the due time of the next sweep, would be 0)
C25_ExpiryTimerOnlyWhenNeeded ==
  [][(sweepTimer' # sweepTimer /\ performanceWarnings' = <<>>) =>
       sweepTimer' = 0]_vars

\* the warnings a step of the frame callback has added to the list
AddedWarnings ==
  SubSeq(performanceWarnings', Len(performanceWarnings) + 1,
         Len(performanceWarnings'))

\* C26: a check that emits a critical warning while auto-adjustment is on
\* and the first critical warning suggests another tier than the active one
\* schedules one tier change, due 1 second later, to that tier, and a check
\* at tier 'low' schedules none; the scheduled change runs once its second
\* has passed, sets the active tier to the suggested one and appends exactly
\* one synthetic warning of severity 'warning' without a suggested tier
C26_DelayedDowngrade ==
  /\ [][(lastFrameTime' # lastFrameTime /\ AddedWarnings # <<>>) =>
          LET cs == Criticals(AddedWarnings)
          IN IF autoQualityEnabled /\ cs # <<>>
                /\ cs[1].suggestedQuality # qualityLevel
               THEN /\ qualityLevel # "low"
                    /\ autoTimeouts' =
                         autoTimeouts
                           \cup {[due |-> now + 1000,
                                  quality |-> cs[1].suggestedQuality]}
                    /\ autoTimeouts' # autoTimeouts
               ELSE autoTimeouts' = autoTimeouts]_vars
  /\ [][autoTimeouts' # autoTimeouts =>
          \/ lastFrameTime' # lastFrameTime /\ AddedWarnings # <<>>
          \/ \E t \in autoTimeouts :
               /\ autoTimeouts' = autoTimeouts \ {t}
               /\ now >= t.due
               /\ now < t.due + 60
               /\ qualityLevel' = t.quality
               /\ Len(performanceWarnings') = Len(performanceWarnings) + 1
               /\ AddedWarnings[1].severity = "warning"
               /\ AddedWarnings[1].suggestedQuality = "none"]_vars
  /\ [](\A t \in autoTimeouts : now < t.due + 60)

\* the scheduled change has run, tier 'low' is active and carries the
\* synthetic warning, and a later check at tier 'low' has emitted a critical
\* warning that scheduled nothing
C26_Witness ==
  /\ isPlaying /\ autoQualityEnabled
  /\ qualityLevel = "low"
  /\ autoTimeouts = {}
  /\ \E i, j \in 1..Len(performanceWarnings) :
       /\ i < j
       /\ performanceWarnings[i].suggestedQuality = "none"
       /\ performanceWarnings[j].severity = "critical"
       /\ performanceWarnings[j].timestamp = now + EpochOffset

\* C27: every tier change the auto-adjustment applies sets the active tier
\* strictly lower than the tier active immediately before it is applied,
\* whatever tier the user selected in between
C27_AutoAdjustOnlyLowers ==
  [][(autoTimeouts' # autoTimeouts /\ lastFrameTime' = lastFrameTime
       /\ qualityLevel' # qualityLevel)
      => TierRank(qualityLevel') < TierRank(qualityLevel)]_vars

\* C28: while the auto-adjustment is switched off the monitor does not
\* change the active tier, also when it was switched off after a critical
\* warning had been emitted: a step of a timer or of the frame callback
\* taken while it is off leaves the tier as it is
C28_NoAdjustWhileDisabled ==
  [][(~autoQualityEnabled /\ opsLeft' = opsLeft) =>
       qualityLevel' = qualityLevel]_vars

\* C29: at each performance check lowFpsCount and criticalFpsCount go up by
\* 1 when the measured frame rate is under 45 and under 25 respectively and
\* else down by 1, not below 0; and the first check, from zeroed counters
\* and an empty history, emits no warning when its frame rate is under the
\* thresholds
C29_SingleBadSampleSilent ==
  [][perf'.lastUpdate # perf.lastUpdate =>
       /\ perf'.lowFpsCount =
            IF perf'.fps < 45 THEN perf.lowFpsCount + 1
            ELSE Max(0, perf.lowFpsCount - 1)
       /\ perf'.criticalFpsCount =
            IF perf'.fps < 25 THEN perf.criticalFpsCount + 1
            ELSE Max(0, perf.criticalFpsCount - 1)
       /\ (perf.fpsHistory = <<>> /\ perf.lowFpsCount = 0
            /\ perf.criticalFpsCount = 0 /\ perf'.fps < 25)
           => AddedWarnings = <<>>]_vars

\* C30: two consecutive meter updates are more than the tier's meter
\* interval apart and two consecutive waveform and oscilloscope updates more
\* than its waveform interval, at every frame rate; and each throttle fires
\* on its own test alone: a tick in which one fires leaves the other's
\* last-fire time unchanged unless the other's interval has passed as well
C30_ThrottlesIndependent ==
  [][/\ lastMeterUpdate' # lastMeterUpdate =>
          /\ lastMeterUpdate' = now
          /\ lastMeterUpdate' - lastMeterUpdate
               > getUpdateIntervals(qualityLevel).meter
          /\ now - lastWaveformUpdate
                 <= getUpdateIntervals(qualityLevel).waveform
               => lastWaveformUpdate' = lastWaveformUpdate
     /\ lastWaveformUpdate' # lastWaveformUpdate =>
          /\ lastWaveformUpdate' = now
          /\ lastWaveformUpdate' - lastWaveformUpdate
               > getUpdateIntervals(qualityLevel).waveform
          /\ now - lastMeterUpdate <= getUpdateIntervals(qualityLevel).meter
               => lastMeterUpdate' = lastMeterUpdate]_vars

\* the waveform throttle has just fired for the second time at least, in a
\* tick in which the meter throttle, which fired before, did not
C30_Witness ==
  /\ isPlaying
  /\ lastWaveformUpdate = now
  /\ lastFrameTime = now
  /\ 0 < lastMeterUpdate
  /\ lastMeterUpdate < lastWaveformUpdate
  /\ lastWaveformUpdate - lastMeterUpdate
       > getUpdateIntervals(qualityLevel).waveform

\* C31: on every spectrum update each of the 140 columns is the average of
\* at least one bin: a column whose start index equals the next column's
\* start index aggregates the bin at its start index
C31_ColumnsAggregateABin ==
  [][(isActive' /\ isPlaying' /\ frequencyData'.len > 0
       /\ frequencies' # frequencies)
      => \A i \in 0..(VIZ_COLS - 1) :
           LET from == startIndex(logIndexMap', i)
               to == Max(endIndex(logIndexMap', i, frequencyData'.len),
                         from + 1)
           IN frequencies'[i + 1] =
                Min(100 * SpectrumScale,
                    (SumBins(frequencyData', from, to) * 2 * intensity'
                       * SpectrumScale) \div ((to - from) * 255))]_vars

AllColumnsZero == \A c \in 1..Len(frequencies) : frequencies[c] = 0

\* C32: while the analyzer is inactive each decay step replaces every
\* column value f by max(0, f * 0.95 - 1), which lowers every column above
\* 0, and the decay timer is cancelled exactly when the step has left every
\* column at 0; a change of the frequency buffer or of the intensity during
\* the decay replaces the one timer by one due 50 ms later; and an analyzer
\* that is inactive and stays so eventually has every column at exactly 0
C32_FadeToZero ==
  /\ [][(~isActive /\ ~isActive' /\ spectrumTimer # 0 /\ spectrumTimer <= now
          /\ audioTimer' = audioTimer /\ intensity' = intensity
          /\ isPlaying' = isPlaying /\ now' = now)
         => /\ \A c \in 1..VIZ_COLS :
                 /\ frequencies'[c] =
                      Max(0, (frequencies[c] * 95) \div 100 - SpectrumScale)
                 /\ frequencies[c] > 0 => frequencies'[c] < frequencies[c]
            /\ spectrumTimer' = 0 <=> AllColumnsZero']_vars
  /\ [][(~isActive /\ ~isActive'
          /\ (audioTimer' # audioTimer \/ intensity' # intensity))
         => /\ spectrumTimer' = now + 50
            /\ frequencies' = frequencies]_vars
  /\ [](frequencies \in [1..VIZ_COLS -> 0..(100 * SpectrumScale)])
  /\ ~isActive ~> (isActive \/ AllColumnsZero)

\* the analyzer was stopped with its last column at full scale, and 34
\* decay steps have brought that column to 0.973
C32_Witness ==
  /\ ~isActive
  /\ spectrumTimer # 0
  /\ frequencies[VIZ_COLS] = 973

\* C33: the zoom level is always one of the twelve levels and the amplitude
\* zoom one of 1, 2, 4, 8; zoomIn, zoomOut, amplitudeZoomIn and
\* amplitudeZoomOut move one position in their ascending list and leave the
\* value as it is at the list's end; and a step that changes the zoom level
\* leaves the amplitude zoom alone, and the reverse, unless it is the reset
\* of both to 1
C33_ZoomQuantized ==
  /\ [](\E i \in 1..Len(levels) : zoomLevel = levels[i])
  /\ [](\E i \in 1..Len(amplitudeLevels) : amplitudeZoom = amplitudeLevels[i])
  /\ [](/\ \A i \in 1..(Len(levels) - 1) : levels[i] < levels[i + 1]
        /\ \A i \in 1..Len(levels) :
             /\ zoomIn(levels[i]) = levels[Min(i + 1, Len(levels))]
             /\ zoomOut(levels[i]) = levels[Max(i - 1, 1)]
        /\ \A i \in 1..Len(amplitudeLevels) :
             /\ amplitudeZoomIn(amplitudeLevels[i])
                  = amplitudeLevels[Min(i + 1, Len(amplitudeLevels))]
             /\ amplitudeZoomOut(amplitudeLevels[i])
                  = amplitudeLevels[Max(i - 1, 1)])
  /\ [][zoomLevel' # zoomLevel =>
          \/ /\ zoomLevel' \in {zoomIn(zoomLevel), zoomOut(zoomLevel)}
             /\ amplitudeZoom' = amplitudeZoom
          \/ zoomLevel' = ZoomUnit /\ amplitudeZoom' = 1 /\ panOffset' = 0]_vars
  /\ [][amplitudeZoom' # amplitudeZoom =>
          \/ /\ amplitudeZoom' \in {amplitudeZoomIn(amplitudeZoom),
                                    amplitudeZoomOut(amplitudeZoom)}
             /\ zoomLevel' = zoomLevel
          \/ zoomLevel' = ZoomUnit /\ amplitudeZoom' = 1 /\ panOffset' = 0]_vars

\* four steps have taken the zoom from 1x to the last level, 16x, and the
\* amplitude zoom is still the initial 8x
C33_Witness ==
  /\ zoomLevel = levels[Len(levels)]
  /\ zoomIn(zoomLevel) = zoomLevel
  /\ amplitudeZoom = 8
  /\ opsLeft = 0

\* C34: after each performance check the frame-skip count is
\* max(1, floor(60 / fps)) when the measured rate is under 30 fps and else
\* 0, and between checks it keeps its value; while it is positive a tick
\* does the throttled meter and waveform work only when the frame counter
\* is a multiple of it, and else each throttle decides alone; and the
\* warnings a check adds, the fps counters, the history and the cooldown
\* timestamp it leaves do not depend on the frame-skip count
C34_FrameSkipBackpressure ==
  [][lastFrameTime' # lastFrameTime =>
       /\ IF perf'.lastUpdate # perf.lastUpdate
            THEN perf'.skipFrames =
                   (IF perf'.fps < 30 THEN Max(1, 60 \div perf'.fps) ELSE 0)
            ELSE perf'.skipFrames = perf.skipFrames
       /\ IF perf'.skipFrames > 0 /\ perf'.frameCount % perf'.skipFrames # 0
            THEN UNCHANGED <<lastMeterUpdate, lastWaveformUpdate, meterData,
                             waveformBars, oscilloscopeData>>
            ELSE /\ lastMeterUpdate' # lastMeterUpdate
                      <=> now - lastMeterUpdate
                            > getUpdateIntervals(qualityLevel).meter
                 /\ lastWaveformUpdate' # lastWaveformUpdate
                      <=> now - lastWaveformUpdate
                            > getUpdateIntervals(qualityLevel).waveform
       /\ \A count \in {0, 1, 3, 60} :
            \E other \in {PerformanceBlock([perf EXCEPT !.skipFrames = count],
                                           qualityLevel, isPlaying,
                                           autoQualityEnabled, now)} :
              /\ other.added = AddedWarnings
              /\ other.perf.lowFpsCount = perf'.lowFpsCount
              /\ other.perf.criticalFpsCount = perf'.criticalFpsCount
              /\ other.perf.fpsHistory = perf'.fpsHistory
              /\ other.perf.lastWarningTime = perf'.lastWarningTime]_vars

\* at 20 fps the count is 3, and the tick that has just run was skipped
\* although the meter interval had passed
C34_Witness ==
  /\ isPlaying
  /\ lastFrameTime = now
  /\ perf.fps = 20
  /\ perf.skipFrames = 3
  /\ perf.frameCount % 3 # 0
  /\ now - lastMeterUpdate > getUpdateIntervals(qualityLevel).meter

\* C35: each performance check appends its reading to the frame-rate
\* history and drops the oldest reading once there are more than 10, so the
\* history holds the most recent readings in arrival order, never more than
\* 10, and the average frame rate is the arithmetic mean of those readings
C35_RollingHistory ==
  /\ [](Len(perf.fpsHistory) <= 10)
  /\ [](perf.fpsHistory # <<>> =>
          /\ perf.avgFps.num = SumSeq(perf.fpsHistory)
          /\ perf.avgFps.den = Len(perf.fpsHistory))
  /\ [][perf'.lastUpdate # perf.lastUpdate =>
          perf'.fpsHistory =
            (IF Len(perf.fpsHistory) < 10
               THEN Append(perf.fpsHistory, perf'.fps)
               ELSE Append(Tail(perf.fpsHistory), perf'.fps))]_vars
  /\ [][perf'.lastUpdate = perf.lastUpdate =>
          perf'.fpsHistory = perf.fpsHistory]_vars

\* at tier 'ultra' the window holds ten equal readings: the first
\* reading of the playback, which counts another number of frames, has left
\* the window
C35_Witness ==
  /\ isPlaying
  /\ qualityLevel = "ultra"
  /\ Len(perf.fpsHistory) = 10
  /\ \A i \in 1..10 : perf.fpsHistory[i] = perf.fps
  /\ perf.avgFps = [num |-> 10 * perf.fps, den |-> 10]
  /\ perf.fps > 30

\* C36: every warning a check emits with a suggested tier suggests a tier
\* lower than or equal to the tier active at that check
C36_SuggestionsNeverHigher ==
  [][lastFrameTime' # lastFrameTime =>
       \A i \in 1..Len(AddedWarnings) :
         AddedWarnings[i].suggestedQuality # "none" =>
           TierRank(AddedWarnings[i].suggestedQuality)
             <= TierRank(qualityLevel)]_vars

\* C39: in frequency mode, for every tier's bin count and every zoom level,
\* every one of the 128 display samples is derived from a bin inside the
\* window [startBin, endBin): none is past the window's end and filled
\* with 0
C39_FreqTraceSpansDisplay ==
  (oscilloscopeMode = "freq" /\ opsLeft = 0) =>
    \E w \in {FreqWindow(frequencyData.len, zoomLevel, panOffset)} :
      \A i \in 0..(DisplaySamples - 1) :
        /\ w.startBin + i * w.step < w.endBin
        /\ oscilloscopeData[i + 1] =
             FreqValue(At(frequencyData, w.startBin + i * w.step),
                       amplitudeZoom)

\* C37: the frame rate a performance check records is, within rounding,
\* the number of ticks since the previous check divided by the time elapsed
\* since that check, and with ticks arriving at the constant rate of one a
\* frame period it is that rate, at the first check after playback starts
\* as at every other
C37_FpsIsTicksOverElapsed ==
  [][perf'.lastUpdate # perf.lastUpdate =>
       /\ perf'.fps - Round((perf.frameCount + 1) * 1000, now - perf.lastUpdate)
            \in (0 - 1)..1
       /\ perf'.fps - Round(1000, framePeriod) \in (0 - 1)..1]_vars

\* C38: in every reachable state, for each channel the VU peak hold is at
\* least the VU level and the PPM peak hold is at least the PPM level
C38_HoldsAboveLevels ==
  /\ meterData.vuPeakLeft >= meterData.vuLeft
  /\ meterData.vuPeakRight >= meterData.vuRight
  /\ meterData.ppmPeakLeft >= meterData.ppmLeft
  /\ meterData.ppmPeakRight >= meterData.ppmRight

\* meter updates have raised the levels and the holds, and steps of the
\* decay loop after the pause have lowered both: the holds are under their
\* clamp and still above the levels
C38_Witness ==
  /\ ~isPlaying
  /\ meterData.ppmLeft > 0
  /\ meterData.ppmPeakLeft > meterData.ppmLeft
  /\ meterData.ppmPeakLeft < 100 * MeterScale
  /\ meterData.vuRight > 0
  /\ meterData.vuPeakRight > meterData.vuRight

====
